---- MODULE Spec2Model ----
(***************************************************************************)
(* AgroSense: the Context Bus (MCPClient), the background diagnosis job    *)
(* (run_diagnosis_background driving AgroSenseCrew), the gateway handlers  *)
(* of main.py with their session store (memory dict and Redis cache), and  *)
(* the lazily built crew of get_crew.                                      *)
(*                                                                         *)
(* Python values are tagged records [t, v]: t is the Python type ("str",   *)
(* "none", "int", "bool", or the name of an enum class), v the payload.    *)
(* A str is a sequence of text atoms; enum-like strings are spelled one    *)
(* character per atom so that str.upper() / str.lower() are computed.      *)
(***************************************************************************)
EXTENDS Integers, Sequences, FiniteSets, TLC

VARIABLES
    contexts,   \* MCPClient._contexts : session id -> MCPContext
    last,       \* the last Context Bus call: its arguments and its outcome
    ncalls,     \* how many calls the clients of the bus have made
    sessions,   \* main.sessions : session id -> gateway session dict
    jobs,       \* background tasks enqueued by chat, with their position
    reply,      \* the last gateway response
    rate_limit_storage, \* main.rate_limit_storage : client address -> request times
    now,        \* datetime.now(), in seconds
    nturns,     \* how many gateway requests the clients have made
    accepted,   \* per client address, the times of the chat requests let through
    turn,       \* the last chat request: its client address, whether it
                \* called the language model, and whether that call raised
    USE_REDIS,  \* main.USE_REDIS, set when the module is imported
    cache_errors,       \* how many calls to the cache have raised
    redis,      \* the Redis cache: key -> the JSON text and when it expires
    saved_at,   \* per session id, the time of its last save_session
    crew_instance,      \* main.crew_instance
    CREW_INITIALIZING,  \* main.CREW_INITIALIZING
    crew_lock,          \* main.crew_lock: the thread that holds it
    callers     \* the threads inside get_crew, each with its position

vars == <<contexts, last, ncalls, sessions, jobs, reply,
          rate_limit_storage, now, nturns, accepted, turn,
          USE_REDIS, cache_errors, redis, saved_at,
          crew_instance, CREW_INITIALIZING, crew_lock, callers>>

\* the session store: the memory dict, the cache and the save times
store == <<sessions, redis, saved_at>>

\* whether there is a cache, and how often it has failed
cache == <<USE_REDIS, cache_errors>>

\* the lazily built crew and the threads that ask for it
loader == <<crew_instance, CREW_INITIALIZING, crew_lock, callers>>

\* the rate limiter, the clock and what is recorded about the chat requests
limiter == <<rate_limit_storage, now, nturns, accepted, turn>>

-----------------------------------------------------------------------------
(* Python values *)

Str(s) == [t |-> "str", v |-> s]
None == [t |-> "none", v |-> <<>>]
PyInt(a) == [t |-> "int", v |-> <<a>>]
Bool(b) == [t |-> "bool", v |-> <<IF b THEN "True" ELSE "False">>]
Member(cls, s) == [t |-> cls, v |-> s]
PyList(items) == [t |-> "list", v |-> items]
PyDict(items) == [t |-> "dict", v |-> items]

isinstance_str(x) == x.t = "str"

LowerLetters == <<"a", "b", "c", "d", "e", "f", "g", "h", "i", "j", "k", "l", "m",
                  "n", "o", "p", "q", "r", "s", "t", "u", "v", "w", "x", "y", "z">>
UpperLetters == <<"A", "B", "C", "D", "E", "F", "G", "H", "I", "J", "K", "L", "M",
                  "N", "O", "P", "Q", "R", "S", "T", "U", "V", "W", "X", "Y", "Z">>

ToUpper == [c \in {LowerLetters[i] : i \in DOMAIN LowerLetters} |->
               UpperLetters[CHOOSE i \in DOMAIN LowerLetters : LowerLetters[i] = c]]
ToLower == [c \in {UpperLetters[i] : i \in DOMAIN UpperLetters} |->
               LowerLetters[CHOOSE i \in DOMAIN UpperLetters : UpperLetters[i] = c]]

UpperChar(c) == IF c \in DOMAIN ToUpper THEN ToUpper[c] ELSE c
LowerChar(c) == IF c \in DOMAIN ToLower THEN ToLower[c] ELSE c

\* str.upper() and str.lower()
upper(s) == [i \in DOMAIN s |-> UpperChar(s[i])]
lower(s) == [i \in DOMAIN s |-> LowerChar(s[i])]

-----------------------------------------------------------------------------
(* schemas: the enumerations and the MCPContext defaults *)

CROP == <<"C", "R", "O", "P">>
LIVESTOCK == <<"L", "I", "V", "E", "S", "T", "O", "C", "K">>
GENERAL == <<"G", "E", "N", "E", "R", "A", "L">>
AssetTypeValues == {CROP, LIVESTOCK, GENERAL}

DISEASE_DIAGNOSIS == <<"d", "i", "s", "e", "a", "s", "e", "_",
                       "d", "i", "a", "g", "n", "o", "s", "i", "s">>
PEST_MANAGEMENT == <<"p", "e", "s", "t", "_", "m", "a", "n", "a", "g", "e", "m", "e", "n", "t">>
MARKET_INFO == <<"m", "a", "r", "k", "e", "t", "_", "i", "n", "f", "o">>
WEATHER_ADVISORY == <<"w", "e", "a", "t", "h", "e", "r", "_",
                      "a", "d", "v", "i", "s", "o", "r", "y">>
GENERAL_ADVICE == <<"g", "e", "n", "e", "r", "a", "l", "_", "a", "d", "v", "i", "c", "e">>
IntentTypeValues ==
    {DISEASE_DIAGNOSIS, PEST_MANAGEMENT, MARKET_INFO, WEATHER_ADVISORY, GENERAL_ADVICE}

LOW == <<"L", "O", "W">>
MEDIUM == <<"M", "E", "D", "I", "U", "M">>
HIGH == <<"H", "I", "G", "H">>
CRITICAL == <<"C", "R", "I", "T", "I", "C", "A", "L">>
SeverityValues == {LOW, MEDIUM, HIGH, CRITICAL}

EnumValues(cls) ==
    CASE cls = "AssetType" -> AssetTypeValues
      [] cls = "IntentType" -> IntentTypeValues
      [] cls = "Severity" -> SeverityValues

\* Enum(value): the member with that value, or ValueError
EnumAccepts(cls, s) == s \in EnumValues(cls)

AssetTypeMembers == {Member("AssetType", s) : s \in AssetTypeValues}
IntentTypeMembers == {Member("IntentType", s) : s \in IntentTypeValues}
SeverityMembers == {Member("Severity", s) : s \in SeverityValues}

\* SourceDocument(**fields): content, source, page, asset_type and score are
\* required; asset_type is a member of AssetType or one of its values; score
\* is a float in [0, 1], kept here in hundredths
SourceDocumentAccepts(fields) ==
    /\ {"source", "asset_type", "score"} \subseteq DOMAIN fields
    /\ fields.score \in 0..100
    /\ \/ fields.asset_type \in AssetTypeMembers
       \/ fields.asset_type.t = "str" /\ EnumAccepts("AssetType", fields.asset_type.v)

SourceDocument(fields) ==
    [t |-> "SourceDocument",
     v |-> [fields EXCEPT !.asset_type = IF @.t = "str" THEN Member("AssetType", @.v) ELSE @]]

PENDING == <<"Diagnosis pending.">>

\* MCPContext(session_id=..., query=..., region=...)
MCPContext(session_id, query, region) ==
    [session_id |-> Str(<<session_id>>),
     query |-> query,
     region |-> region,
     asset_type |-> Member("AssetType", GENERAL),
     asset_name |-> None,
     intent |-> Member("IntentType", GENERAL_ADVICE),
     retrieved_context |-> PyList(<<>>),
     regional_data |-> PyDict(<<>>),
     final_diagnosis |-> Str(PENDING),
     alert_triggered |-> Bool(FALSE),
     alert_severity |-> None,
     alert_payload_detail |-> None]

\* the required fields query and region are declared str: anything else is a
\* validation error of the constructor
MCPContextAccepts(query, region) == query.t = "str" /\ region.t = "str"

hasattr(context, key) == key \in DOMAIN context

-----------------------------------------------------------------------------
(* MCPClient *)

SessionIds == {"s1", "s2"}

get_context(ctxs, session_id) ==
    IF session_id \in DOMAIN ctxs THEN <<ctxs[session_id]>> ELSE <<>>

Put(ctxs, session_id, context) ==
    [s \in DOMAIN ctxs \cup {session_id} |->
        IF s = session_id THEN context ELSE ctxs[s]]

\* create_session without the early return for an id already present
create_session_overwrites(ctxs, session_id, query, region) ==
    IF ~MCPContextAccepts(query, region)
    THEN [ctxs |-> ctxs, raised |-> TRUE, ret |-> <<>>]
    ELSE LET context == MCPContext(session_id, query, region)
         IN  [ctxs |-> Put(ctxs, session_id, context), raised |-> FALSE, ret |-> <<context>>]

\* create_session: [ctxs: the map afterwards, raised, ret: the record returned]
create_session(ctxs, session_id, query, region) ==
    IF session_id \in DOMAIN ctxs
    THEN [ctxs |-> ctxs, raised |-> FALSE, ret |-> <<ctxs[session_id]>>]
    ELSE IF ~MCPContextAccepts(query, region)
    THEN [ctxs |-> ctxs, raised |-> TRUE, ret |-> <<>>]
    ELSE LET context == MCPContext(session_id, query, region)
         IN  [ctxs |-> Put(ctxs, session_id, context), raised |-> FALSE, ret |-> <<context>>]

\* setattr(context, key, value)
setattr(context, key, value) == [context EXCEPT ![key] = value]

Returned(context) == [context |-> context, raised |-> FALSE]
Raised(context) == [context |-> context, raised |-> TRUE]

\* SourceDocument(**doc) if isinstance(doc, dict) else doc
ValidatedDoc(doc) ==
    IF doc.t = "dict" THEN SourceDocument(doc.v) ELSE doc

\* key == 'retrieved_context' and isinstance(value, list): the list is built
\* before it is assigned, so a ValidationError leaves the field as it was
SetRetrievedContext(context, value) ==
    IF \E i \in DOMAIN value.v :
           value.v[i].t = "dict" /\ ~SourceDocumentAccepts(value.v[i].v)
    THEN Raised(context)
    ELSE Returned(setattr(context, "retrieved_context",
                          PyList([i \in DOMAIN value.v |-> ValidatedDoc(value.v[i])])))

\* key == 'asset_type' and isinstance(value, str)
SetAssetType(context, value) ==
    IF EnumAccepts("AssetType", upper(value.v))
    THEN Returned(setattr(context, "asset_type", Member("AssetType", upper(value.v))))
    ELSE Raised(context)

\* the intent branch without its try/except ValueError
SetIntent_no_except(context, value) ==
    IF EnumAccepts("IntentType", lower(value.v))
    THEN Returned(setattr(context, "intent", Member("IntentType", lower(value.v))))
    ELSE Raised(context)

\* key == 'intent' and isinstance(value, str)
SetIntent(context, value) ==
    IF EnumAccepts("IntentType", lower(value.v))
    THEN Returned(setattr(context, "intent", Member("IntentType", lower(value.v))))
    ELSE Returned(setattr(context, "intent", Member("IntentType", GENERAL_ADVICE)))

\* key == 'alert_severity' and isinstance(value, str)
SetAlertSeverity(context, value) ==
    IF EnumAccepts("Severity", upper(value.v))
    THEN Returned(setattr(context, "alert_severity", Member("Severity", upper(value.v))))
    ELSE Raised(context)

\* the if/elif chain for a key the record has
SetKnownField(context, key, value) ==
    IF key = "retrieved_context" /\ value.t = "list"
    THEN SetRetrievedContext(context, value)
    ELSE IF key = "asset_type" /\ isinstance_str(value)
    THEN SetAssetType(context, value)
    ELSE IF key = "intent" /\ isinstance_str(value)
    THEN SetIntent(context, value)
    ELSE IF key = "alert_severity" /\ isinstance_str(value)
    THEN SetAlertSeverity(context, value)
    ELSE Returned(setattr(context, key, value))

\* the loop body raising on an unknown key instead of skipping it
SetField_unknown_raises(context, key, value) ==
    IF ~hasattr(context, key)
    THEN Raised(context)
    ELSE SetKnownField(context, key, value)

\* one iteration of the loop over kwargs: [context, raised]
SetField(context, key, value) ==
    IF ~hasattr(context, key)
    THEN Returned(context)
    ELSE SetKnownField(context, key, value)

\* the loop over kwargs.items(), in call order; the record is mutated in
\* place, so what was set before a raise stays set
RECURSIVE SetFields(_, _, _)
SetFields(context, kwargs, i) ==
    IF i > Len(kwargs)
    THEN [context |-> context, raised |-> FALSE]
    ELSE LET r == SetField(context, kwargs[i].key, kwargs[i].value)
         IN  IF r.raised THEN r ELSE SetFields(r.context, kwargs, i + 1)

\* update_context creating the record when the id is absent
update_context_upserts(ctxs, session_id, kwargs) ==
    LET context == IF session_id \in DOMAIN ctxs THEN ctxs[session_id]
                   ELSE MCPContext(session_id, None, None)
        r == SetFields(context, kwargs, 1)
    IN  [ctxs |-> Put(ctxs, session_id, r.context),
         raised |-> r.raised,
         ret |-> IF r.raised THEN <<>> ELSE <<r.context>>]

\* update_context: [ctxs, raised, ret]
update_context(ctxs, session_id, kwargs) ==
    IF session_id \notin DOMAIN ctxs
    THEN [ctxs |-> ctxs, raised |-> TRUE, ret |-> <<>>]
    ELSE LET r == SetFields(ctxs[session_id], kwargs, 1)
         IN  [ctxs |-> Put(ctxs, session_id, r.context),
              raised |-> r.raised,
              ret |-> IF r.raised THEN <<>> ELSE <<r.context>>]

\* clear_session emptying the whole map
clear_session_all(ctxs, session_id) == <<>>

\* a clear that leaves the record where it is
clear_session_keeps(ctxs, session_id) == ctxs

clear_session(ctxs, session_id) ==
    [s \in DOMAIN ctxs \ {session_id} |-> ctxs[s]]

-----------------------------------------------------------------------------
(* Calls made on the Context Bus by its clients *)

MaxCalls == 3
KwargLens == {1, 2}

CreateArgs ==
    {[query |-> Str(<<"My maize leaves are yellow">>), region |-> Str(<<"Nakuru">>)],
     [query |-> Str(<<"weather check">>), region |-> Str(<<"Eldoret">>)]}

Kwarg(key, value) == [key |-> key, value |-> value]

KwargPairs ==
    {Kwarg("asset_type", Str(<<"c", "r", "o", "p">>)),
     Kwarg("asset_type", Str(<<"I", "N", "S", "E", "C", "T">>)),
     Kwarg("asset_type", PyInt("7")),
     Kwarg("intent", Str(<<"P", "e", "s", "t", "_", "M", "a", "n", "a", "g", "e", "m", "e", "n", "t">>)),
     Kwarg("intent", Str(<<"b", "a", "d", "_", "u", "n", "r", "e", "c", "o", "g", "n", "i", "z", "e", "d">>)),
     Kwarg("alert_severity", Str(<<"u", "r", "g", "e", "n", "t">>)),
     Kwarg("alert_severity", Member("Severity", MEDIUM)),
     Kwarg("asset_name", Str(<<"Maize">>)),
     Kwarg("crop_variety", Str(<<"H614">>))}

\* **kwargs: an ordered mapping, so no key occurs twice
KwargsSet ==
    {kw \in UNION {[1..n -> KwargPairs] : n \in KwargLens} :
        \A i, j \in DOMAIN kw : i # j => kw[i].key # kw[j].key}

NoCall ==
    [op |-> "none", session_id |-> "", kwargs |-> <<>>, query |-> None, region |-> None,
     pre |-> <<>>, raised |-> FALSE, ret |-> <<>>]

BusCreate(session_id, a) ==
    LET r == create_session(contexts, session_id, a.query, a.region)
    IN  /\ ncalls < MaxCalls
        /\ ncalls' = ncalls + 1
        /\ contexts' = r.ctxs
        /\ last' = [NoCall EXCEPT !.op = "create_session", !.session_id = session_id,
                                  !.query = a.query, !.region = a.region,
                                  !.pre = get_context(contexts, session_id),
                                  !.raised = r.raised, !.ret = r.ret]
        /\ UNCHANGED <<store, jobs, reply, limiter, cache, loader>>

BusUpdate(session_id, kwargs) ==
    LET r == update_context(contexts, session_id, kwargs)
    IN  /\ ncalls < MaxCalls
        /\ ncalls' = ncalls + 1
        /\ contexts' = r.ctxs
        /\ last' = [NoCall EXCEPT !.op = "update_context", !.session_id = session_id,
                                  !.kwargs = kwargs,
                                  !.pre = get_context(contexts, session_id),
                                  !.raised = r.raised, !.ret = r.ret]
        /\ UNCHANGED <<store, jobs, reply, limiter, cache, loader>>

BusClear(session_id) ==
    /\ ncalls < MaxCalls
    /\ ncalls' = ncalls + 1
    /\ contexts' = clear_session(contexts, session_id)
    /\ last' = [NoCall EXCEPT !.op = "clear_session", !.session_id = session_id,
                              !.pre = get_context(contexts, session_id)]
    /\ UNCHANGED <<store, jobs, reply, limiter, cache, loader>>

NoReply == [kind |-> "none"]

NoTurn == [client_ip |-> "", called_llm |-> FALSE, llm_raised |-> FALSE]

\* the store of a process that found no cache when it was imported
InitMemoryStore ==
    /\ USE_REDIS = FALSE
    /\ cache_errors = 0
    /\ redis = <<>>
    /\ saved_at = [s \in DOMAIN sessions |-> now]

\* the threads that may call get_crew
Callers == {"t1", "t2", "t3"}

NoHolder == "nobody"

\* a thread outside get_crew: what its last call returned, whether that call
\* raised, how many calls it has made and how many crews it has constructed
IdleCaller == [pc |-> "idle", ret |-> None, raised |-> FALSE, calls |-> 0, built |-> 0]

\* crew_instance = None, crew_lock = threading.Lock(), CREW_INITIALIZING = False
InitCrew ==
    /\ crew_instance = None
    /\ CREW_INITIALIZING = FALSE
    /\ crew_lock = NoHolder
    /\ callers = [c \in Callers |-> IdleCaller]

\* the client addresses get_client_ip may return
ClientIps == {"ip1", "ip2"}

Init ==
    /\ contexts = <<>>
    /\ last = NoCall
    /\ ncalls = 0
    /\ sessions = <<>>
    /\ jobs = <<>>
    /\ reply = NoReply
    /\ rate_limit_storage = [ip \in ClientIps |-> <<>>]
    /\ now = 0
    /\ nturns = 0
    /\ accepted = [ip \in ClientIps |-> <<>>]
    /\ turn = NoTurn
    /\ InitMemoryStore
    /\ InitCrew

NextBus ==
    \/ \E s \in SessionIds, a \in CreateArgs : BusCreate(s, a)
    \/ \E s \in SessionIds, kw \in KwargsSet : BusUpdate(s, kw)
    \/ \E s \in SessionIds : BusClear(s)

SpecBus == Init /\ [][NextBus]_vars

-----------------------------------------------------------------------------
(* Properties of the Context Bus, checked under SpecBus *)

IsCall(op) == last.op = op
Existing == last.pre # <<>>
Now == contexts[last.session_id]
Before == last.pre[1]
Keys(kwargs) == {kwargs[i].key : i \in DOMAIN kwargs}

EnumClassOf(key) ==
    CASE key = "asset_type" -> "AssetType"
      [] key = "intent" -> "IntentType"
      [] key = "alert_severity" -> "Severity"

\* a string the enum of its field does not have, under the case folding
\* update_context applies to that field
Unrecognized(kw) ==
    /\ kw.key \in {"asset_type", "intent", "alert_severity"}
    /\ isinstance_str(kw.value)
    /\ upper(kw.value.v) \notin EnumValues(EnumClassOf(kw.key))
    /\ lower(kw.value.v) \notin EnumValues(EnumClassOf(kw.key))

\* C1: create_session for an id already on the bus returns the stored record
\* and changes nothing of it, whatever query and region are passed and
\* whatever updates came in between; the bus keeps one record per id.
C1_CreateIdempotent ==
    (IsCall("create_session") /\ Existing) =>
        /\ last.ret = last.pre
        /\ last.session_id \in DOMAIN contexts
        /\ Now = Before

C1_Witness ==
    /\ IsCall("create_session") /\ Existing
    /\ Before.query # last.query
    /\ Before # MCPContext(last.session_id, Before.query, Before.region)
    /\ Now = Before

\* C2: in every reachable state each record's asset_type, intent and
\* alert_severity is a member of its enum (alert_severity may be unset).
C2_EnumFieldsTyped ==
    \A s \in DOMAIN contexts :
        /\ contexts[s].asset_type \in AssetTypeMembers
        /\ contexts[s].intent \in IntentTypeMembers
        /\ contexts[s].alert_severity \in SeverityMembers \cup {None}

C4_NoRaiseOnEnumString ==
    (IsCall("update_context") /\ Existing) => ~last.raised

\* C5: update_context for an id that is not on the bus fails with the
\* session-not-found error, creates no record and changes no record.
C5_UpdateAbsentFails ==
    [][(/\ ncalls' = ncalls + 1
        /\ last'.op = "update_context"
        /\ last'.session_id \notin DOMAIN contexts)
       => (/\ last'.raised
           /\ last'.ret = <<>>
           /\ contexts' = contexts)]_vars

C5_Witness ==
    /\ IsCall("update_context") /\ ~Existing
    /\ last.raised
    /\ DOMAIN contexts # {}
    /\ last.session_id \notin DOMAIN contexts

\* C6: in a call mixing unknown field names with recognized ones, each
\* unknown name is skipped (no error, no new attribute, no field changed by
\* it) and every recognized field of the call is still applied.
Applied(context, kw) ==
    IF kw.key \in {"asset_type", "intent", "alert_severity"} /\ isinstance_str(kw.value)
    THEN /\ context[kw.key].t = EnumClassOf(kw.key)
         /\ context[kw.key].v \in {upper(kw.value.v), lower(kw.value.v), GENERAL_ADVICE}
    ELSE context[kw.key] = kw.value

-----------------------------------------------------------------------------
(* Capability ports: the tools the crew's agents call *)

MOCK_SOURCE == <<"MOCK_SOURCE">>

\* the list _run_mock writes
MockDocs ==
    PyList(<<SourceDocument([source |-> Str(MOCK_SOURCE),
                             asset_type |-> Member("AssetType", GENERAL), score |-> 100])>>)

\* what index.query may return: each match with its metadata and its score
\* (in hundredths; the score of a match is whatever the index computes)
Matches(backend) ==
    CASE backend = "ok" ->
             <<[source |-> Str(<<"Maize-Manual.pdf">>), asset_type |-> Str(<<"c", "r", "o", "p">>),
                score |-> 92]>>
      [] backend = "bad_score" ->
             <<[source |-> Str(<<"Maize-Manual.pdf">>), asset_type |-> Str(<<"c", "r", "o", "p">>),
                score |-> 92],
               [source |-> Str(<<"Pinecone">>), asset_type |-> Str(<<"g", "e", "n", "e", "r", "a", "l">>),
                score |-> 137]>>
      [] OTHER -> <<>>

\* the fields of the SourceDocument built from a match
MatchFields(match) ==
    [match EXCEPT !.asset_type =
        IF EnumAccepts("AssetType", upper(@.v))
        THEN Member("AssetType", upper(@.v)) ELSE Str(upper(@.v))]

\* a retrieval tool that lets the error of the index end the call
RAGTool_run_error_propagates(ctxs, session_id, backend) ==
    IF backend = "no_index"
    THEN update_context(ctxs, session_id, <<Kwarg("retrieved_context", MockDocs)>>)
    ELSE [ctxs |-> ctxs, raised |-> TRUE, ret |-> <<>>]

\* RAGTool._run: backend is "no_index" (mock mode), "error" (the query
\* raises), or names what the query returns
RAGTool_run(ctxs, session_id, backend) ==
    LET mock == update_context(ctxs, session_id, <<Kwarg("retrieved_context", MockDocs)>>)
        matches == Matches(backend)
        built == \A i \in DOMAIN matches : SourceDocumentAccepts(MatchFields(matches[i]))
        retrieved_docs == PyList([i \in DOMAIN matches |-> SourceDocument(MatchFields(matches[i]))])
        real == update_context(ctxs, session_id, <<Kwarg("retrieved_context", retrieved_docs)>>)
    IN  IF backend \in {"no_index", "error"} \/ ~built \/ real.raised THEN mock ELSE real

\* _fetch_weather: the source of the weather data. weather is "openweather"
\* (the first backend answers), "weatherapi" (the first has no key or fails,
\* the second answers), "down" (both fail) or "no_keys"
fetch_weather(weather) ==
    CASE weather = "openweather" -> <<"OpenWeatherMap">>
      [] weather = "weatherapi" -> <<"WeatherAPI">>
      [] OTHER -> <<"Mock Data (Climate Estimates)">>

\* the regional data _run combines
new_regional_data(weather) ==
    PyDict([weather |-> PyDict([source |-> Str(fetch_weather(weather))]),
            market_prices |-> PyDict([source |-> Str(<<"Mock Data (Regional Estimates)">>)]),
            fetch_timestamp |-> Str(<<"utcnow">>)])

\* a fetch tool without the test for a missing session
WeatherPriceTool_run_unchecked(ctxs, session_id, weather) ==
    update_context(ctxs, session_id, <<Kwarg("regional_data", new_regional_data(weather))>>)

\* a fetch tool that reports the failure of the weather backends
WeatherPriceTool_run_no_mock(ctxs, session_id, weather) ==
    IF get_context(ctxs, session_id) = <<>> \/ weather \in {"down", "no_keys"}
    THEN [ctxs |-> ctxs, raised |-> FALSE, ret |-> <<>>]
    ELSE update_context(ctxs, session_id,
             <<Kwarg("regional_data", new_regional_data(weather))>>)

\* WeatherPriceTool._run
WeatherPriceTool_run(ctxs, session_id, weather) ==
    IF get_context(ctxs, session_id) = <<>>
    THEN [ctxs |-> ctxs, raised |-> FALSE, ret |-> <<>>]
    ELSE update_context(ctxs, session_id,
             <<Kwarg("regional_data", new_regional_data(weather))>>)

\* an alert tool that lets the ValueError of Severity(...) end the call
N8NAlertTool_run_no_fallback(ctxs, session_id, severity) ==
    IF get_context(ctxs, session_id) = <<>>
    THEN [ctxs |-> ctxs, raised |-> FALSE, ret |-> <<>>]
    ELSE IF ~EnumAccepts("Severity", upper(severity.v))
    THEN [ctxs |-> ctxs, raised |-> TRUE, ret |-> <<>>]
    ELSE update_context(ctxs, session_id,
             <<Kwarg("alert_triggered", Bool(TRUE)),
               Kwarg("alert_severity", Member("Severity", upper(severity.v)))>>)

\* an alert tool that marks the record before it builds the payload
N8NAlertTool_run_marks_first(ctxs, session_id, severity) ==
    IF get_context(ctxs, session_id) = <<>>
    THEN [ctxs |-> ctxs, raised |-> FALSE, ret |-> <<>>]
    ELSE LET r == update_context(ctxs, session_id, <<Kwarg("alert_triggered", Bool(TRUE))>>)
         IN  IF ctxs[session_id].asset_type.t \notin {"AssetType", "IntentType", "Severity"}
             THEN [ctxs |-> r.ctxs, raised |-> TRUE, ret |-> <<>>]
             ELSE update_context(r.ctxs, session_id,
                      <<Kwarg("alert_severity",
                              IF EnumAccepts("Severity", upper(severity.v))
                              THEN Member("Severity", upper(severity.v))
                              ELSE Member("Severity", LOW)),
                        Kwarg("alert_payload_detail",
                              PyDict([severity |-> IF EnumAccepts("Severity", upper(severity.v))
                                                   THEN Member("Severity", upper(severity.v))
                                                   ELSE Member("Severity", LOW),
                                      region |-> ctxs[session_id].region,
                                      asset_type |-> ctxs[session_id].asset_type.v]))>>)

\* N8NAlertTool._run
N8NAlertTool_run(ctxs, session_id, severity) ==
    IF get_context(ctxs, session_id) = <<>>
    THEN [ctxs |-> ctxs, raised |-> FALSE, ret |-> <<>>]
    ELSE LET context == ctxs[session_id]
             validated_severity ==
                 IF EnumAccepts("Severity", upper(severity.v))
                 THEN Member("Severity", upper(severity.v))
                 ELSE Member("Severity", LOW)
             payload == PyDict([severity |-> validated_severity,
                                region |-> context.region,
                                asset_type |-> context.asset_type.v])
             r == update_context(ctxs, session_id,
                      <<Kwarg("alert_triggered", Bool(TRUE)),
                        Kwarg("alert_severity", validated_severity),
                        Kwarg("alert_payload_detail", payload)>>)
         IN  IF context.asset_type.t \notin {"AssetType", "IntentType", "Severity"}
             THEN [ctxs |-> ctxs, raised |-> TRUE, ret |-> <<>>]
             ELSE [r EXCEPT !.raised = FALSE]

-----------------------------------------------------------------------------
(* main.py: the gateway session store and the background diagnosis job *)

MaxTurns == 2
RATE_LIMIT_REQUESTS == 30
RATE_LIMIT_WINDOW == 60
MAX_SESSION_MESSAGES == 100

ChatIds == {"s1"}

STILL_WORKING == <<"Your comprehensive diagnosis is still being prepared. Please check back in a moment.">>
MAX_MESSAGES_REPLY == <<"You've reached the maximum number of messages for this session. Please start a new conversation.">>
LLM_APOLOGY == <<"I apologize, I'm experiencing technical difficulties.">>
USER_SAFE_ERROR == <<"We encountered an issue processing your request. Please try again or contact support.">>
FAILED_DIAGNOSIS == <<"I apologize, but I encountered an issue while analyzing your farm situation.">>

\* what the conversational model may answer: with a ready keyword or without
ReadyKeywords == {"detailed analysis", "expert system", "comprehensive recommendations",
                  "detailed recommendations"}
AiMessages == {<<"Thanks. I will run a ", "detailed analysis", " now.">>,
               <<"Which crop is affected?">>}
is_ready(ai_message) == \E i \in DOMAIN ai_message : ai_message[i] \in ReadyKeywords

\* llm.call(messages): it answers with a message, or it raises
LlmOutcomes == {[raised |-> FALSE, message |-> m] : m \in AiMessages}
               \cup {[raised |-> TRUE, message |-> <<>>]}

\* a generation whose except branch answers as if the model were ready
generate_conversational_response_ready_on_error(llm) ==
    IF llm.raised
    THEN [message |-> LLM_APOLOGY, is_ready_for_diagnosis |-> TRUE]
    ELSE [message |-> llm.message, is_ready_for_diagnosis |-> is_ready(llm.message)]

generate_conversational_response(llm) ==
    IF llm.raised
    THEN [message |-> LLM_APOLOGY, is_ready_for_diagnosis |-> FALSE]
    ELSE [message |-> llm.message, is_ready_for_diagnosis |-> is_ready(llm.message)]

Missing == [t |-> "missing", v |-> <<>>]
truthy(x) == ~(x.t \in {"none", "missing"}) /\ x.v # <<>>

\* what extract_information may return: the model's JSON (any field null or
\* missing) or the defaults of its two fallbacks
ExtractedInfos ==
    {[issue |-> Str(<<"white spots on leaves">>), crop_or_livestock |-> Str(<<"maize">>),
      additional_details |-> None, region |-> Str(<<"Eldoret">>)],
     [issue |-> None, crop_or_livestock |-> None,
      additional_details |-> None, region |-> None]}

\* ". ".join(query_parts)
RECURSIVE Join(_)
Join(parts) ==
    IF parts = <<>> THEN <<>>
    ELSE IF Len(parts) = 1 THEN parts[1]
    ELSE parts[1] \o <<". ">> \o Join(Tail(parts))

QueryOf(extracted_info) ==
    LET query_parts ==
            (IF truthy(extracted_info.issue) THEN <<extracted_info.issue.v>> ELSE <<>>)
            \o (IF truthy(extracted_info.crop_or_livestock)
                THEN <<(<<"Crop/Livestock: ">> \o extracted_info.crop_or_livestock.v)>>
                ELSE <<>>)
            \o (IF truthy(extracted_info.additional_details)
                THEN <<extracted_info.additional_details.v>> ELSE <<>>)
    IN  IF query_parts # <<>> THEN Str(Join(query_parts))
        ELSE Str(<<"General farming advice needed">>)

\* extracted_info.get("region", "Kenya")
RegionOf(extracted_info) ==
    IF extracted_info.region = Missing THEN Str(<<"Kenya">>) ELSE extracted_info.region

NewSession ==
    [messages |-> <<>>, status |-> "chatting", diagnosis |-> None, error |-> None,
     classification |-> None, alert_triggered |-> None, alert_severity |-> None,
     last_diagnosis |-> None, extracted_info |-> None]

SESSION_TTL == 3600

\* the fields of a session dict that hold values, not the message log or
\* the status word
ValueFields ==
    {"diagnosis", "error", "classification", "alert_triggered", "alert_severity",
     "last_diagnosis", "extracted_info"}

JsonTypes == {"str", "none", "bool", "int", "dict", "missing"}

\* json.dumps(data, default=str): a value JSON has no form for is written
\* as the text str() gives
json_dumps(data) ==
    [json |-> [f \in DOMAIN data |->
                 IF f \in ValueFields /\ data[f].t \notin JsonTypes
                 THEN Str(data[f].v) ELSE data[f]]]

json_loads(text) == text.json

\* whether a call to the cache answers (TRUE) or raises (FALSE); a process
\* without a cache makes no such call
CacheOutcomes == IF USE_REDIS THEN BOOLEAN ELSE {TRUE}

\* how many calls to the cache may raise
MaxCacheErrors == 1

\* the handler made the cache calls with these outcomes
CacheCalls(outcomes) ==
    LET raised == Cardinality({i \in DOMAIN outcomes : ~outcomes[i]})
    IN  /\ cache_errors + raised <= MaxCacheErrors
        /\ cache_errors' = cache_errors + raised

\* d[k] = v on a dict
SetItem(d, k, v) == [x \in DOMAIN d \cup {k} |-> IF x = k THEN v ELSE d[x]]

\* d.pop(k, None)
Pop(d, k) == [x \in DOMAIN d \ {k} |-> d[x]]

\* sessions.get(session_id), as a sequence of at most one dict
sessions_get(session_id) ==
    IF session_id \in DOMAIN sessions THEN <<sessions[session_id]>> ELSE <<>>

\* redis_client.get(f"session:{session_id}"): a key whose time to live has
\* run out is gone
redis_get(session_id) ==
    IF session_id \in DOMAIN redis /\ now < redis[session_id].expires
    THEN <<redis[session_id].data>>
    ELSE <<>>

\* get_session(session_id) when the cache call has outcome ok, as a sequence
\* of at most one dict
get_session(session_id, ok) ==
    IF USE_REDIS /\ ok
    THEN IF redis_get(session_id) = <<>> THEN <<>>
         ELSE <<json_loads(redis_get(session_id)[1])>>
    ELSE sessions_get(session_id)

\* whether the dict get_session returned is the one the memory dict holds, so
\* that what the handler assigns to it changes the memory dict at once
Aliased(found, ok) == found # <<>> /\ ~(USE_REDIS /\ ok)

\* the memory dict after the handler has changed the dict it read into data
InPlace(session_id, data, found, ok) ==
    IF Aliased(found, ok) THEN SetItem(sessions, session_id, data) ELSE sessions

\* save_session(session_id, data) when the cache call has outcome ok, the
\* memory dict being memory by then
save_session(memory, session_id, data, ok) ==
    /\ IF USE_REDIS /\ ok
       THEN /\ redis' = SetItem(redis, session_id,
                                [data |-> json_dumps(data), expires |-> now + SESSION_TTL])
            /\ sessions' = memory
       ELSE /\ sessions' = SetItem(memory, session_id, data)
            /\ redis' = redis
    /\ saved_at' = SetItem(saved_at, session_id, now)

\* delete_session(session_id) when the cache call has outcome ok
delete_session(session_id, ok) ==
    /\ IF USE_REDIS /\ ~ok
       THEN UNCHANGED <<sessions, redis>>
       ELSE /\ redis' = IF USE_REDIS THEN Pop(redis, session_id) ELSE redis
            /\ sessions' = Pop(sessions, session_id)
    /\ UNCHANGED saved_at

ChatResponse(session_id, message, requires_action, action_type) ==
    [kind |-> "chat", session_id |-> session_id, message |-> message,
     requires_action |-> requires_action, action_type |-> action_type]

NewJob(session_id, extracted_info) ==
    [session_id |-> session_id, extracted_info |-> extracted_info,
     pc |-> "queued", ran |-> <<>>, raw |-> None, exc |-> ""]

\* run_diagnosis_background is a coroutine without an await: from get_crew to
\* its last save_session it holds the event loop, and no request handler and
\* no other background task runs meanwhile
EventLoopFree == \A j \in DOMAIN jobs : jobs[j].pc # "running"

\* the request times of the stored list that are later than cutoff
RECURSIVE Later(_, _)
Later(times, cutoff) ==
    IF times = <<>> THEN <<>>
    ELSE IF Head(times) > cutoff THEN <<Head(times)>> \o Later(Tail(times), cutoff)
    ELSE Later(Tail(times), cutoff)

\* a limiter that records the request before it tests the budget
check_rate_limit_counts_rejected(storage, client_ip, t) ==
    LET cutoff == t - RATE_LIMIT_WINDOW
        kept == Later(storage[client_ip], cutoff)
    IN  [storage |-> [storage EXCEPT ![client_ip] = Append(kept, t)],
         ok |-> Len(kept) < RATE_LIMIT_REQUESTS]

\* check_rate_limit(client_ip) at time t: the storage afterwards and the result
check_rate_limit(storage, client_ip, t) ==
    LET cutoff == t - RATE_LIMIT_WINDOW
        kept == Later(storage[client_ip], cutoff)
    IN  IF Len(kept) >= RATE_LIMIT_REQUESTS
        THEN [storage |-> [storage EXCEPT ![client_ip] = kept], ok |-> FALSE]
        ELSE [storage |-> [storage EXCEPT ![client_ip] = Append(kept, t)], ok |-> TRUE]

HTTPException(status_code, detail) ==
    [kind |-> "http_error", status_code |-> status_code, detail |-> detail]

\* f"Rate limit exceeded. Maximum {RATE_LIMIT_REQUESTS} requests per minute."
RateLimitDetail == [text |-> <<"Rate limit exceeded. Maximum ", " requests per minute.">>,
                    limit |-> RATE_LIMIT_REQUESTS]

\* the cap compared with > where the code has >=
at_cap_off_by_one(session_data) == Len(session_data.messages) > MAX_SESSION_MESSAGES

\* len(session_data.get("messages", [])) >= MAX_SESSION_MESSAGES
at_cap(session_data) == Len(session_data.messages) >= MAX_SESSION_MESSAGES

\* session_data.get("status") == "completed" and session_data.get("diagnosis")
has_diagnosis(session_data) ==
    session_data.status = "completed" /\ truthy(session_data.diagnosis)

\* a chat turn that never finds the session processing
is_processing_never(session_data) == FALSE

\* session_data.get("status") == "processing"
is_processing(session_data) == session_data.status = "processing"

\* the session stored without the status set
started_session_status_kept(session_data, extracted_info) ==
    [session_data EXCEPT !.extracted_info = PyDict(extracted_info)]

\* the session stored before the job is enqueued
started_session(session_data, extracted_info) ==
    [session_data EXCEPT !.extracted_info = PyDict(extracted_info),
                         !.status = "processing"]

\* the body of POST /api/v1/chat after the rate limit let the request through;
\* llm is what the conversational model answers, extracted_info what
\* extract_information returns
chat_body(client_ip, session_id, llm, extracted_info) ==
  \E got, saved \in CacheOutcomes :
    LET found == get_session(session_id, got)
        save(data) == save_session(InPlace(session_id, data, found, got),
                                   session_id, data, saved)
        session_data == IF found = <<>> THEN NewSession ELSE found[1]
        with_user == [session_data EXCEPT !.messages = Append(@, "user")]
        ai_response == generate_conversational_response(llm)
        with_ai == [with_user EXCEPT !.messages = Append(@, "assistant")]
    IN  IF at_cap(session_data)
        THEN /\ reply' = ChatResponse(session_id, MAX_MESSAGES_REPLY, FALSE, None)
             /\ turn' = [client_ip |-> client_ip, called_llm |-> FALSE, llm_raised |-> FALSE]
             /\ CacheCalls(<<got>>)
             /\ UNCHANGED <<store, jobs>>
        ELSE IF has_diagnosis(with_user)
        THEN /\ reply' = ChatResponse(session_id, with_user.diagnosis.v, FALSE, None)
             /\ save([with_user EXCEPT !.last_diagnosis = with_user.diagnosis,
                                       !.diagnosis = None,
                                       !.status = "chatting"])
             /\ CacheCalls(<<got, saved>>)
             /\ turn' = [client_ip |-> client_ip, called_llm |-> FALSE, llm_raised |-> FALSE]
             /\ UNCHANGED jobs
        ELSE IF is_processing(with_user)
        THEN /\ save(with_user)
             /\ CacheCalls(<<got, saved>>)
             /\ reply' = ChatResponse(session_id, STILL_WORKING, FALSE, None)
             /\ turn' = [client_ip |-> client_ip, called_llm |-> FALSE, llm_raised |-> FALSE]
             /\ UNCHANGED jobs
        ELSE IF ai_response.is_ready_for_diagnosis
        THEN /\ save(started_session(with_ai, extracted_info))
             /\ CacheCalls(<<got, saved>>)
             /\ jobs' = Append(jobs, NewJob(session_id, extracted_info))
             /\ reply' = ChatResponse(session_id, ai_response.message, TRUE,
                                      Str(<<"diagnosis_started">>))
             /\ turn' = [client_ip |-> client_ip, called_llm |-> TRUE,
                          llm_raised |-> llm.raised]
        ELSE /\ save(with_ai)
             /\ CacheCalls(<<got, saved>>)
             /\ reply' = ChatResponse(session_id, ai_response.message, FALSE, None)
             /\ turn' = [client_ip |-> client_ip, called_llm |-> TRUE,
                          llm_raised |-> llm.raised]
             /\ UNCHANGED jobs

\* POST /api/v1/chat
chat(client_ip, session_id, llm, extracted_info) ==
    LET limit == check_rate_limit(rate_limit_storage, client_ip, now)
    IN  /\ EventLoopFree
        /\ nturns < MaxTurns
        /\ nturns' = nturns + 1
        /\ rate_limit_storage' = limit.storage
        /\ IF ~limit.ok
           THEN /\ reply' = HTTPException(429, RateLimitDetail)
                /\ turn' = [client_ip |-> client_ip, called_llm |-> FALSE, llm_raised |-> FALSE]
                /\ UNCHANGED <<store, jobs, accepted, cache_errors>>
           ELSE /\ accepted' = [accepted EXCEPT ![client_ip] = Append(@, now)]
                /\ chat_body(client_ip, session_id, llm, extracted_info)
        /\ UNCHANGED <<contexts, last, ncalls, now, USE_REDIS, loader>>

\* a status poll that reports the stored status as it is
StatusResponse_status_as_stored(session_id, session_data) ==
    [kind |-> "status", session_id |-> session_id,
     status |-> session_data.status,
     diagnosis |-> IF truthy(session_data.diagnosis)
                   THEN session_data.diagnosis ELSE Missing,
     classification |-> Missing, alert_triggered |-> Missing,
     alert_severity |-> Missing, error |-> Missing,
     message |-> <<"Status: ", session_data.status>>]

\* what a status poll answers for a stored session
StatusResponse(session_id, session_data) ==
    LET response == [kind |-> "status", session_id |-> session_id,
                     status |-> session_data.status, diagnosis |-> Missing,
                     classification |-> Missing, alert_triggered |-> Missing,
                     alert_severity |-> Missing, error |-> Missing,
                     message |-> <<"Status: ", session_data.status>>]
    IN  IF session_data.status = "completed"
        THEN IF truthy(session_data.diagnosis)
             THEN [response EXCEPT !.diagnosis = session_data.diagnosis,
                                   !.classification = session_data.classification,
                                   !.alert_triggered = session_data.alert_triggered,
                                   !.alert_severity = session_data.alert_severity,
                                   !.message = <<"Diagnosis ready!">>]
             ELSE [response EXCEPT !.status = "processing",
                                   !.message = <<"Still processing...">>]
        ELSE IF session_data.status = "failed"
        THEN [response EXCEPT !.message = <<"Analysis failed">>,
                              !.error = session_data.error]
        ELSE response

\* GET /api/v1/status/{session_id}
check_status(session_id) ==
  \E got \in CacheOutcomes :
    LET found == get_session(session_id, got)
    IN  /\ EventLoopFree
        /\ reply' = IF found = <<>>
                    THEN HTTPException(404, <<"Session not found or expired">>)
                    ELSE StatusResponse(session_id, found[1])
        /\ CacheCalls(<<got>>)
        /\ UNCHANGED <<contexts, last, ncalls, store, jobs, limiter, USE_REDIS, loader>>

\* DELETE /api/v1/session/{session_id}
end_session(session_id) ==
    /\ EventLoopFree
    /\ \E ok \in CacheOutcomes : delete_session(session_id, ok) /\ CacheCalls(<<ok>>)
    /\ reply' = [kind |-> "ended", session_id |-> session_id, message |-> <<"Session ended">>,
                 requires_action |-> FALSE, action_type |-> None]
    /\ UNCHANGED <<contexts, last, ncalls, jobs, limiter, USE_REDIS, loader>>

\* the task list with retrieval and regional fetch exchanged
tasks_out_of_order ==
    <<"classify_query_task", "fetch_regional_data_task", "retrieve_knowledge_task",
      "generate_diagnosis_task", "check_alerts_task">>

\* AgroSenseCrew.crew: the task list, run with Process.sequential
tasks == <<"classify_query_task", "retrieve_knowledge_task", "fetch_regional_data_task",
           "generate_diagnosis_task", "check_alerts_task">>

\* the texts an exception raised inside the job may carry
ExcTexts == {"503: Crew initialization timeout. Please retry.",
             "1 validation error for MCPContext",
             "litellm.RateLimitError: quota exceeded for key AIza..."}

\* what CrewOutput.raw may be
ResultRaws == {Str(<<"DIAGNOSIS: maize leaf blight. Apply fungicide.">>), Str(<<>>)}

\* the except branch writing the raised text to the user-visible fields
failed_session_leaks(session_data, e) ==
    [session_data EXCEPT !.status = "failed",
                         !.error = Str(<<e>>),
                         !.diagnosis = Str(FAILED_DIAGNOSIS)]

\* the except branch of run_diagnosis_background, applied to the stored dict
failed_session(session_data, e) ==
    [session_data EXCEPT !.status = "failed",
                         !.error = Str(USER_SAFE_ERROR),
                         !.diagnosis = Str(FAILED_DIAGNOSIS)]

\* except Exception as e: ... of run_diagnosis_background, for job j
OnException(j, e, ran) ==
  \E got, saved \in CacheOutcomes :
    LET session_id == jobs[j].session_id
        found == get_session(session_id, got)
        data == failed_session(found[1], e)
    IN  /\ jobs' = [jobs EXCEPT ![j].pc = "failed", ![j].exc = e, ![j].ran = ran]
        /\ IF found # <<>>
           THEN /\ save_session(InPlace(session_id, data, found, got),
                                session_id, data, saved)
                /\ CacheCalls(<<got, saved>>)
           ELSE /\ CacheCalls(<<got>>)
                /\ UNCHANGED store

\* the job up to kickoff: get_crew, the query and region, create_session
JobBegin(j) ==
    /\ jobs[j].pc = "queued"
    /\ EventLoopFree
    /\ \/ /\ OnException(j, "503: Crew initialization timeout. Please retry.", <<>>)
          /\ UNCHANGED contexts
       \/ LET r == create_session(contexts, jobs[j].session_id,
                                   QueryOf(jobs[j].extracted_info),
                                   RegionOf(jobs[j].extracted_info))
          IN  IF r.raised
              THEN /\ OnException(j, "1 validation error for MCPContext", <<>>)
                   /\ UNCHANGED contexts
              ELSE /\ contexts' = r.ctxs
                   /\ jobs' = [jobs EXCEPT ![j].pc = "running"]
                   /\ UNCHANGED <<store, cache_errors>>
    /\ UNCHANGED <<last, ncalls, reply, limiter, USE_REDIS, loader>>

\* what the agent of a task may do with its tool: not call it, or call it
\* once for the job's session
ToolCalls(task) ==
    CASE task = "retrieve_knowledge_task" -> {"none", "ok"}
      [] task = "fetch_regional_data_task" -> {"none", "no_keys"}
      [] task = "check_alerts_task" -> {"none", "urgent"}
      [] OTHER -> {"none"}

SeverityArg(c) == IF c = "HIGH" THEN Str(HIGH) ELSE Str(<<"u", "r", "g", "e", "n", "t">>)

\* the bus after the task's agent made tool call c
TaskEffect(ctxs, session_id, task, c) ==
    LET r == CASE c = "none" -> [ctxs |-> ctxs, raised |-> FALSE]
               [] task = "retrieve_knowledge_task" -> RAGTool_run(ctxs, session_id, c)
               [] task = "fetch_regional_data_task" -> WeatherPriceTool_run(ctxs, session_id, c)
               [] task = "check_alerts_task" -> N8NAlertTool_run(ctxs, session_id, SeverityArg(c))
    IN  IF r.raised THEN ctxs ELSE r.ctxs

\* the next task of the sequential process
NextTask(ran) == tasks[Len(ran) + 1]

\* kickoff running the next task of job j: it completes, or it raises
JobStage(j) ==
    /\ jobs[j].pc = "running"
    /\ Len(jobs[j].ran) < Len(tasks)
    /\ LET task == NextTask(jobs[j].ran)
           ran == Append(jobs[j].ran, task)
       IN  \/ /\ OnException(j, "litellm.RateLimitError: quota exceeded for key AIza...", ran)
              /\ UNCHANGED contexts
           \/ \E c \in ToolCalls(task), raw \in ResultRaws :
                 /\ contexts' = TaskEffect(contexts, jobs[j].session_id, task, c)
                 /\ jobs' = [jobs EXCEPT ![j].ran = ran,
                                         ![j].raw = IF Len(ran) = Len(tasks) THEN raw ELSE @]
                 /\ UNCHANGED <<store, cache_errors>>
    /\ UNCHANGED <<last, ncalls, reply, limiter, USE_REDIS, loader>>

\* the dict stored when the crew has returned
completed_session(session_data, diagnosis, context) ==
    LET d == [session_data EXCEPT !.diagnosis = diagnosis, !.status = "completed"]
    IN  IF context = <<>> THEN d
        ELSE [d EXCEPT !.classification =
                           PyDict([asset_type |-> context[1].asset_type.v,
                                   asset_name |-> IF truthy(context[1].asset_name)
                                                  THEN context[1].asset_name
                                                  ELSE Str(<<"Unknown">>),
                                   intent |-> context[1].intent.v]),
                       !.alert_triggered = context[1].alert_triggered,
                       !.alert_severity = IF truthy(context[1].alert_severity)
                                          THEN Str(context[1].alert_severity.v) ELSE @]

\* the job after kickoff returned: the result is written to the session
JobFinish(j) ==
    /\ jobs[j].pc = "running"
    /\ Len(jobs[j].ran) = Len(tasks)
    /\ \E got, saved \in CacheOutcomes :
          LET session_id == jobs[j].session_id
              found == get_session(session_id, got)
              data == completed_session(found[1], jobs[j].raw,
                                        get_context(contexts, session_id))
          IN  IF found # <<>>
              THEN /\ save_session(InPlace(session_id, data, found, got),
                                   session_id, data, saved)
                   /\ CacheCalls(<<got, saved>>)
              ELSE /\ CacheCalls(<<got>>)
                   /\ UNCHANGED store
    /\ jobs' = [jobs EXCEPT ![j].pc = "done"]
    /\ UNCHANGED <<contexts, last, ncalls, reply, limiter, USE_REDIS, loader>>

\* the gateway sessions a run may start from: none; one that forty-nine plain
\* chat turns have filled; or one with an odd number of messages, whose
\* forty-ninth turn started a diagnosis, got one more message while
\* processing, and whose job then failed in get_crew
PlainLog(n) == [i \in 1..n |-> IF i % 2 = 1 THEN "user" ELSE "assistant"]
InitialSessions ==
    {<<>>,
     [s \in {"s1"} |->
        [NewSession EXCEPT !.messages = PlainLog(MAX_SESSION_MESSAGES - 2)]],
     [s \in {"s1"} |->
        failed_session(
            [NewSession EXCEPT
                !.messages = Append(PlainLog(MAX_SESSION_MESSAGES - 2), "user"),
                !.status = "processing",
                !.extracted_info = PyDict(CHOOSE x \in ExtractedInfos : truthy(x.issue))],
            "503: Crew initialization timeout. Please retry.")]}

InitGateway ==
    /\ contexts = <<>>
    /\ last = NoCall
    /\ ncalls = 0
    /\ sessions \in InitialSessions
    /\ jobs = <<>>
    /\ reply = NoReply
    /\ rate_limit_storage = [ip \in ClientIps |-> <<>>]
    /\ now = 0
    /\ nturns = 0
    /\ accepted = [ip \in ClientIps |-> <<>>]
    /\ turn = NoTurn
    /\ InitMemoryStore
    /\ InitCrew

Next ==
    \/ \E s \in ChatIds, llm \in LlmOutcomes, info \in ExtractedInfos :
          chat("ip1", s, llm, info)
    \/ \E s \in ChatIds : check_status(s)
    \/ \E s \in ChatIds : end_session(s)
    \/ \E j \in DOMAIN jobs : JobBegin(j)
    \/ \E j \in DOMAIN jobs : JobStage(j)
    \/ \E j \in DOMAIN jobs : JobFinish(j)

Spec == InitGateway /\ [][Next]_vars

-----------------------------------------------------------------------------
(* Properties of the background diagnosis job, checked under Spec *)

StageOrder == <<"classify_query_task", "retrieve_knowledge_task", "fetch_regional_data_task",
                "generate_diagnosis_task", "check_alerts_task">>

IsPrefix(p, q) == Len(p) <= Len(q) /\ p = SubSeq(q, 1, Len(p))

\* C7: within one run the five stages execute strictly in the order
\* classify, retrieve knowledge, fetch regional data, synthesize diagnosis,
\* evaluate alert: one at a time, none skipped or repeated, the run reports
\* its result only after all five, and after a failure no stage executes.
C7_StagesInOrder ==
    /\ [](\A j \in DOMAIN jobs :
            /\ IsPrefix(jobs[j].ran, StageOrder)
            /\ jobs[j].pc = "queued" => jobs[j].ran = <<>>
            /\ jobs[j].pc = "done" => jobs[j].ran = StageOrder)
    /\ [][\A j \in DOMAIN jobs :
            /\ IsPrefix(jobs[j].ran, jobs'[j].ran)
            /\ Len(jobs'[j].ran) <= Len(jobs[j].ran) + 1
            /\ jobs[j].pc \in {"failed", "done"} => jobs'[j].ran = jobs[j].ran]_vars

C7_Witness ==
    \E j \in DOMAIN jobs : jobs[j].pc = "done" /\ jobs[j].ran = StageOrder

\* C8: when a step of the background job raises and the gateway session
\* still exists, the session's status becomes failed and its error and
\* diagnosis are the fixed user-safe texts, with nothing of the exception in
\* them; the job then stops: it runs no further step and enqueues no retry.
C8_FailureRecorded ==
    [][\A j \in DOMAIN jobs :
          /\ (jobs[j].pc # "failed" /\ jobs'[j].pc = "failed"
               /\ jobs[j].session_id \in DOMAIN sessions)
             => (/\ jobs[j].session_id \in DOMAIN sessions'
                 /\ LET d == sessions'[jobs[j].session_id]
                    IN  /\ d.status = "failed"
                        /\ d.error = Str(USER_SAFE_ERROR)
                        /\ d.diagnosis = Str(FAILED_DIAGNOSIS)
                        /\ \A i \in DOMAIN d.error.v : d.error.v[i] \notin ExcTexts
                        /\ \A i \in DOMAIN d.diagnosis.v : d.diagnosis.v[i] \notin ExcTexts
                 /\ Len(jobs') = Len(jobs))
          /\ jobs[j].pc = "failed" => jobs'[j] = jobs[j]]_vars

C8_Witness ==
    \E j \in DOMAIN jobs :
        /\ jobs[j].pc = "failed"
        /\ jobs[j].exc \in ExcTexts
        /\ Len(jobs[j].ran) = 2
        /\ jobs[j].session_id \in DOMAIN sessions
        /\ sessions[jobs[j].session_id].status = "failed"
        /\ sessions[jobs[j].session_id].error = Str(USER_SAFE_ERROR)

\* C9: once the synthesize-diagnosis stage of a run has completed, the
\* Context Record's final_diagnosis for that session is not the pending
\* sentinel, also when text generation returned nothing.
C9_DiagnosisNotPending ==
    \A j \in DOMAIN jobs :
        (/\ jobs[j].pc \in {"running", "done"}
         /\ \E i \in DOMAIN jobs[j].ran : jobs[j].ran[i] = "generate_diagnosis_task"
         /\ jobs[j].session_id \in DOMAIN contexts)
        => contexts[jobs[j].session_id].final_diagnosis # Str(PENDING)

\* C10: whenever the background job has set a session's status to
\* completed, the diagnosis stored with it is non-empty, whatever the
\* pipeline run returned.
C10_CompletedHasDiagnosis ==
    \A s \in DOMAIN sessions :
        sessions[s].status = "completed" => truthy(sessions[s].diagnosis)

-----------------------------------------------------------------------------
(* Properties of the gateway's chat turns and status polls, checked under Spec *)

\* the step is a chat request for session s that the rate limit let through
ChatTurn(s) ==
    /\ nturns' = nturns + 1
    /\ reply'.kind = "chat"
    /\ reply'.session_id = s

\* the step is a status poll answered for the stored session s
StatusPoll(s) ==
    /\ reply'.kind = "status"
    /\ reply'.session_id = s
    /\ UNCHANGED <<sessions, jobs, nturns>>

AtCap(s) == Len(sessions[s].messages) >= MAX_SESSION_MESSAGES

\* C11: a chat turn on a session with status completed and a non-null
\* diagnosis (and a log below the cap) returns that diagnosis, sets the status
\* to chatting and clears the diagnosis field; a chat turn or a status poll
\* on a session whose diagnosis was consumed, with no new completion since,
\* does not report a diagnosis.
C11_DeliveredOnce ==
    [][\A s \in DOMAIN sessions :
          /\ (ChatTurn(s) /\ ~AtCap(s) /\ sessions[s].status = "completed"
               /\ sessions[s].diagnosis # None)
             => (/\ reply'.message = sessions[s].diagnosis.v
                 /\ sessions'[s].status = "chatting"
                 /\ sessions'[s].diagnosis = None)
          /\ (ChatTurn(s) /\ sessions[s].status = "chatting"
               /\ sessions[s].last_diagnosis # None)
             => reply'.message # sessions[s].last_diagnosis.v
          /\ (StatusPoll(s) /\ sessions[s].status = "chatting")
             => reply'.diagnosis = Missing]_vars

\* the jobs for session id s that are enqueued or running
InFlight(s) ==
    {j \in DOMAIN jobs : jobs[j].session_id = s /\ jobs[j].pc \in {"queued", "running"}}

StillWorkingTurn(s) ==
    /\ reply'.message = STILL_WORKING
    /\ reply'.requires_action = FALSE
    /\ turn'.called_llm = FALSE
    /\ jobs' = jobs

C13_CapRefusesTurn ==
    [][\A s \in DOMAIN sessions :
          (ChatTurn(s) /\ AtCap(s))
          => (/\ reply'.message = MAX_MESSAGES_REPLY
              /\ reply'.requires_action = FALSE
              /\ turn'.called_llm = FALSE
              /\ jobs' = jobs
              /\ sessions' = sessions)]_vars

C13_Witness ==
    /\ reply.kind = "chat"
    /\ reply.message = MAX_MESSAGES_REPLY
    /\ reply.session_id \in DOMAIN sessions
    /\ Len(sessions[reply.session_id].messages) >= MAX_SESSION_MESSAGES
    /\ sessions[reply.session_id].status = "completed"
    /\ truthy(sessions[reply.session_id].diagnosis)

\* C14: in every reachable state the stored message log of every gateway
\* session has at most MAX_SESSION_MESSAGES entries.
C14_LogBounded ==
    \A s \in DOMAIN sessions : Len(sessions[s].messages) <= MAX_SESSION_MESSAGES

\* what a chat turn with requires_action true does, and only such a turn
StartsDiagnosis(s) ==
    /\ (reply'.requires_action = TRUE) <=> (turn'.called_llm /\ is_ready(reply'.message))
    /\ (reply'.requires_action = TRUE) <=> (Len(jobs') = Len(jobs) + 1)
    /\ reply'.requires_action = TRUE
       => (/\ s \in DOMAIN sessions'
           /\ sessions'[s].status = "processing"
           /\ SubSeq(jobs', 1, Len(jobs)) = jobs
           /\ jobs'[Len(jobs')].session_id = s
           /\ jobs'[Len(jobs')].pc = "queued")
    /\ reply'.requires_action # TRUE => jobs' = jobs

\* C15 as stated: a chat turn answers requires_action true exactly when it
\* found the reply ready, stored status processing and enqueued exactly one
\* job; and while a job is in flight for a session id, a stored session of
\* that id never shows status chatting.
C15_NoChattingBeforeFinish ==
    [][\A s \in ChatIds :
          /\ ChatTurn(s) => StartsDiagnosis(s)
          /\ (s \in DOMAIN sessions' /\ InFlight(s)' # {})
             => sessions'[s].status # "chatting"]_vars

\* C15, amended: a chat turn answers requires_action true exactly when it
\* found the reply ready, stored status processing and enqueued exactly one
\* job, all in the one turn; a session that stays stored leaves status
\* processing only in a step in which a job for its id completes or fails,
\* and a status poll on a processing session reports processing.
C15_ProcessingUntilJobEnds ==
    [][\A s \in ChatIds :
          /\ ChatTurn(s) => StartsDiagnosis(s)
          /\ (/\ s \in DOMAIN sessions /\ sessions[s].status = "processing"
              /\ s \in DOMAIN sessions' /\ sessions'[s].status # "processing")
             => \E j \in InFlight(s) : jobs'[j].pc \in {"done", "failed"}
          /\ (/\ s \in DOMAIN sessions /\ sessions[s].status = "processing"
              /\ StatusPoll(s))
             => reply'.status = "processing"]_vars

C15_Witness ==
    /\ reply.kind = "status"
    /\ reply.status = "processing"
    /\ reply.session_id \in DOMAIN sessions
    /\ sessions[reply.session_id].status = "processing"
    /\ \E j \in InFlight(reply.session_id) : jobs[j].pc = "queued"

\* C16: when the background job begins its stages, the Context Record for
\* its session id has the query and region of this run and the default value
\* in every other field, also when an earlier run used the same session id.
C16_FreshContextPerRun ==
    [][\A j \in DOMAIN jobs :
          (jobs[j].pc = "queued" /\ jobs'[j].pc = "running")
          => (/\ jobs[j].session_id \in DOMAIN contexts'
              /\ contexts'[jobs[j].session_id] =
                    MCPContext(jobs[j].session_id, QueryOf(jobs[j].extracted_info),
                               RegionOf(jobs[j].extracted_info)))]_vars

\* the step is a status poll for the stored session s that changed the reply
PollAnswered(s) ==
    /\ reply' # reply
    /\ reply'.kind = "status"
    /\ reply'.session_id = s

\* C17: a status poll for a session stored as completed with a null or empty
\* diagnosis reports status processing and no diagnosis; a poll reports
\* completed only together with the stored, non-empty diagnosis; and a poll
\* never changes the stored sessions.
C17_PollHidesEmptyCompletion ==
    [][\A s \in DOMAIN sessions :
          PollAnswered(s)
          => (/\ (sessions[s].status = "completed" /\ ~truthy(sessions[s].diagnosis))
                 => (reply'.status = "processing" /\ reply'.diagnosis = Missing)
              /\ reply'.status = "completed"
                 => (/\ sessions[s].status = "completed"
                     /\ truthy(reply'.diagnosis)
                     /\ reply'.diagnosis = sessions[s].diagnosis)
              /\ sessions' = sessions)]_vars

C17_Witness ==
    /\ reply.kind = "status"
    /\ reply.status = "processing"
    /\ reply.diagnosis = Missing
    /\ reply.session_id \in DOMAIN sessions
    /\ sessions[reply.session_id].status = "completed"
    /\ sessions[reply.session_id].diagnosis = Str(<<>>)

\* the step is a DELETE of session s, or leaves everything as such a DELETE
\* left it
EndStep(s) ==
    /\ reply'.kind = "ended"
    /\ reply'.session_id = s
    /\ jobs' = jobs
    /\ nturns' = nturns

\* C18: ending a session removes its Gateway Session State and the Context
\* Record the Context Bus holds for that id; ending an absent or already
\* ended session succeeds and changes nothing.
C18_EndRemovesSessionAndContext ==
    [][\A s \in ChatIds :
          EndStep(s)
          => (/\ s \notin DOMAIN sessions'
              /\ s \notin DOMAIN contexts'
              /\ (s \notin DOMAIN sessions /\ s \notin DOMAIN contexts)
                 => (sessions' = sessions /\ contexts' = contexts))]_vars

-----------------------------------------------------------------------------
(* The rate limiter over time, checked under SpecRate *)

MaxTime == 90
TickSteps == {29, 30}

\* time passes between two requests
Tick(d) ==
    /\ now + d <= MaxTime
    /\ now' = now + d
    /\ UNCHANGED <<contexts, last, ncalls, store, jobs, reply,
                   rate_limit_storage, nturns, accepted, turn, cache, loader>>

Times(n, t) == [i \in 1..n |-> t]

\* the requests client ip1 has made by second 30: ten in second 0 and then
\* nineteen or twenty in second 30, all plain chat turns on session s1
EarlierRequests ==
    {Times(10, 0) \o Times(RATE_LIMIT_REQUESTS - 11, 30),
     Times(10, 0) \o Times(RATE_LIMIT_REQUESTS - 10, 30)}

InitRate ==
    /\ contexts = <<>>
    /\ last = NoCall
    /\ ncalls = 0
    /\ jobs = <<>>
    /\ now = 30
    /\ nturns = 0
    /\ \E times \in EarlierRequests :
          /\ rate_limit_storage = [ip \in ClientIps |-> IF ip = "ip1" THEN times ELSE <<>>]
          /\ accepted = rate_limit_storage
          /\ sessions = [s \in {"s1"} |->
                            [NewSession EXCEPT !.messages = PlainLog(2 * Len(times))]]
    /\ reply = ChatResponse("s1", <<"Which crop is affected?">>, FALSE, None)
    /\ turn = [client_ip |-> "ip1", called_llm |-> TRUE, llm_raised |-> FALSE]
    /\ InitMemoryStore
    /\ InitCrew

NextRate ==
    \/ \E d \in TickSteps : Tick(d)
    \/ \E ip \in ClientIps, s \in ChatIds, llm \in LlmOutcomes, info \in ExtractedInfos :
          chat(ip, s, llm, info)

SpecRate == InitRate /\ [][NextRate]_vars

\* how many of the request times are in the window of RATE_LIMIT_WINDOW
\* seconds that ends at second t
InWindow(times, t) ==
    Cardinality({i \in DOMAIN times : times[i] > t - RATE_LIMIT_WINDOW /\ times[i] <= t})

Rejected == reply'.kind = "http_error" /\ reply'.status_code = 429

\* C19: per client address at most RATE_LIMIT_REQUESTS chat requests are
\* accepted within any window of RATE_LIMIT_WINDOW seconds; a request is
\* rejected exactly when the budget of its address is used up, the rejection
\* carries the configured limit, is not recorded against the budget and
\* leaves sessions, jobs and context records untouched; and a request
\* changes nothing in the budget of another address.
C19_RateLimit ==
    [][nturns' = nturns + 1
       => LET ip == turn'.client_ip
          IN  /\ Rejected <=> InWindow(accepted[ip], now) >= RATE_LIMIT_REQUESTS
              /\ Rejected
                 => (/\ reply'.detail.limit = RATE_LIMIT_REQUESTS
                     /\ accepted' = accepted
                     /\ InWindow(rate_limit_storage'[ip], now)
                          = InWindow(rate_limit_storage[ip], now)
                     /\ Len(rate_limit_storage'[ip]) <= Len(rate_limit_storage[ip])
                     /\ UNCHANGED <<sessions, jobs, contexts>>)
              /\ ~Rejected => accepted'[ip] = Append(accepted[ip], now)
              /\ \A other \in ClientIps \ {ip} :
                    /\ rate_limit_storage'[other] = rate_limit_storage[other]
                    /\ accepted'[other] = accepted[other]
              /\ \A a \in ClientIps : \A i \in DOMAIN accepted'[a] :
                    InWindow(accepted'[a], accepted'[a][i]) <= RATE_LIMIT_REQUESTS]_vars

C19_Witness ==
    /\ reply.kind = "http_error"
    /\ reply.status_code = 429
    /\ turn.client_ip = "ip1"
    /\ now = 59
    /\ InWindow(accepted["ip1"], now) = RATE_LIMIT_REQUESTS
    /\ Len(accepted["ip2"]) = 1

-----------------------------------------------------------------------------
(* The tools called on the Context Bus, checked under SpecPorts *)

\* the severity strings an agent may pass to the alert tool
SeverityInputs == {Str(<<"u", "r", "g", "e", "n", "t">>), Str(HIGH), Str(lower(HIGH))}

RagBackends == {"no_index", "ok", "error", "bad_score"}
WeatherBackends == {"openweather", "weatherapi", "down", "no_keys"}

ToolCall(op, session_id, arg, r) ==
    /\ ncalls' = ncalls + 1
    /\ contexts' = r.ctxs
    /\ last' = [NoCall EXCEPT !.op = op, !.session_id = session_id,
                              !.kwargs = <<Kwarg("arg", arg)>>,
                              !.pre = get_context(contexts, session_id),
                              !.raised = r.raised, !.ret = r.ret]
    /\ UNCHANGED <<store, jobs, reply, limiter, cache, loader>>

ToolRAG(session_id, backend) ==
    /\ ncalls < MaxCalls
    /\ ToolCall("RAGTool", session_id, Str(<<backend>>),
                RAGTool_run(contexts, session_id, backend))

ToolWeather(session_id, weather) ==
    /\ ncalls < MaxCalls
    /\ ToolCall("WeatherPriceTool", session_id, Str(<<weather>>),
                WeatherPriceTool_run(contexts, session_id, weather))

ToolAlert(session_id, severity) ==
    /\ ncalls < MaxCalls
    /\ ToolCall("N8NAlertTool", session_id, severity,
                N8NAlertTool_run(contexts, session_id, severity))

\* the bus as the crew uses it: sessions are created and cleared, and every
\* update comes from a tool
NextPorts ==
    \/ \E s \in SessionIds, a \in CreateArgs : BusCreate(s, a)
    \/ \E s \in SessionIds : BusClear(s)
    \/ \E s \in SessionIds, backend \in RagBackends : ToolRAG(s, backend)
    \/ \E s \in SessionIds, weather \in WeatherBackends : ToolWeather(s, weather)
    \/ \E s \in SessionIds, severity \in SeverityInputs : ToolAlert(s, severity)

SpecPorts == Init /\ [][NextPorts]_vars

\* C20: the alert tool called for an existing session with a severity string
\* that is none of LOW, MEDIUM, HIGH, CRITICAL succeeds, and afterwards the
\* Context Record has alert_triggered true and alert_severity LOW.
C20_InvalidSeverityBecomesLow ==
    (/\ IsCall("N8NAlertTool")
     /\ Existing
     /\ upper(last.kwargs[1].value.v) \notin {LOW, MEDIUM, HIGH, CRITICAL})
    => (/\ ~last.raised
        /\ last.ret # <<>>
        /\ last.session_id \in DOMAIN contexts
        /\ Now.alert_triggered = Bool(TRUE)
        /\ Now.alert_severity = Member("Severity", LOW)
        /\ Now.alert_payload_detail.v.severity = Member("Severity", LOW))

C20_Witness ==
    /\ IsCall("N8NAlertTool")
    /\ Existing
    /\ last.kwargs[1].value = Str(<<"u", "r", "g", "e", "n", "t">>)
    /\ Before.alert_severity = Member("Severity", HIGH)
    /\ Now.alert_severity = Member("Severity", LOW)

-----------------------------------------------------------------------------
(* The bus shared by all its clients: every MCPClient instance reads and     *)
(* writes the one class-level map _contexts. Checked under SpecShared.       *)

\* len(text): a text atom counts its characters
TextLength(atom) ==
    CASE atom = "Diagnosis pending." -> 18
      [] atom = "Apply a copper fungicide." -> 25
      [] atom = "Leaf rust: spray a copper fungicide within two days. " -> 53
      [] OTHER -> 1

RECURSIVE len(_)
len(s) == IF s = <<>> THEN 0 ELSE TextLength(Head(s)) + len(Tail(s))

ShortDiagnosis == <<"Apply a copper fungicide.">>
LongDiagnosis == <<"Leaf rust: spray a copper fungicide within two days. ",
                   "Leaf rust: spray a copper fungicide within two days. ">>

\* the status line of the summary with the test for the pending sentinel
\* in place of the length test
DiagnosisStatus_by_sentinel(context) ==
    IF context.final_diagnosis.v # <<>> /\ context.final_diagnosis.v # PENDING
    THEN "COMPLETE" ELSE "PENDING"

\* 'COMPLETE' if len(context.final_diagnosis) > 100 else 'PENDING'
DiagnosisStatus(context) ==
    IF len(context.final_diagnosis.v) > 100 THEN "COMPLETE" ELSE "PENDING"

\* get_full_context_summary: [raised, ret: the diagnosis status of the summary]
get_full_context_summary(ctxs, session_id) ==
    IF get_context(ctxs, session_id) = <<>>
    THEN [raised |-> FALSE, ret |-> <<"No context found.">>]
    ELSE IF ctxs[session_id].asset_type.t \notin {"AssetType", "IntentType", "Severity"}
    THEN [raised |-> TRUE, ret |-> <<>>]
    ELSE [raised |-> FALSE, ret |-> <<DiagnosisStatus(ctxs[session_id])>>]

BusSummary(session_id) ==
    LET r == get_full_context_summary(contexts, session_id)
    IN  /\ ncalls < MaxCalls
        /\ ncalls' = ncalls + 1
        /\ last' = [NoCall EXCEPT !.op = "get_full_context_summary",
                                  !.session_id = session_id,
                                  !.pre = get_context(contexts, session_id),
                                  !.raised = r.raised, !.ret = r.ret]
        /\ UNCHANGED <<contexts, store, jobs, reply, limiter, cache, loader>>

EnumClasses == {"AssetType", "IntentType", "Severity"}

\* a dump that hands the enum members over as they are
model_dump_keeps_members(context) == context

\* context.model_dump(by_alias=True): an enum member becomes its value, a
\* source document the mapping of its fields
model_dump(context) ==
    LET dump_doc(d) == IF d.t = "SourceDocument"
                       THEN PyDict([d.v EXCEPT !.asset_type = Str(@.v)])
                       ELSE d
        dump(x) == IF x.t \in EnumClasses THEN Str(x.v)
                   ELSE IF x.t = "list" THEN PyList([i \in DOMAIN x.v |-> dump_doc(x.v[i])])
                   ELSE x
    IN  [f \in DOMAIN context |-> dump(context[f])]

\* MCPClient.get_context_for_task(session_id)
get_context_for_task(ctxs, session_id) ==
    LET context == get_context(ctxs, session_id)
    IN  IF context # <<>> THEN PyDict(model_dump(context[1])) ELSE PyDict(<<>>)

BusExport(session_id) ==
    /\ ncalls < MaxCalls
    /\ ncalls' = ncalls + 1
    /\ last' = [NoCall EXCEPT !.op = "get_context_for_task",
                              !.session_id = session_id,
                              !.pre = get_context(contexts, session_id),
                              !.ret = get_context_for_task(contexts, session_id)]
    /\ UNCHANGED <<contexts, store, jobs, reply, limiter, cache, loader>>

RawDoc == PyDict([source |-> Str(<<"Manual.pdf">>), asset_type |-> Str(CROP), score |-> 99])
RawDocBadScore == PyDict([source |-> Str(<<"Manual.pdf">>), asset_type |-> Str(CROP), score |-> 150])

\* the field updates the clients of the bus pass, none of them naming an
\* alert field
SharedKwargs ==
    << <<Kwarg("asset_type", PyInt("7"))>>,
       <<Kwarg("asset_type", Str(<<"c", "r", "o", "p">>))>>,
       <<Kwarg("asset_name", Str(<<"Maize">>))>>,
       <<Kwarg("regional_data", PyDict([soil |-> Str(<<"loam">>)]))>>,
       <<Kwarg("retrieved_context", PyList(<<RawDoc>>))>>,
       <<Kwarg("retrieved_context", PyList(<<RawDocBadScore>>))>>,
       <<Kwarg("retrieved_context", PyList(<<Str(<<"leaf rust notes">>)>>))>>,
       <<Kwarg("query", Str(<<"another question">>))>>,
       <<Kwarg("session_id", Str(<<"s9">>))>>,
       <<Kwarg("final_diagnosis", Str(ShortDiagnosis))>>,
       <<Kwarg("final_diagnosis", Str(LongDiagnosis))>>,
       <<Kwarg("final_diagnosis", Str(<<>>))>>,
       <<Kwarg("asset_name", Str(<<"Maize">>)),
         Kwarg("retrieved_context", PyList(<<RawDocBadScore>>))>> >>

NextShared ==
    \/ \E s \in SessionIds, a \in CreateArgs : BusCreate(s, a)
    \/ \E s \in SessionIds, i \in DOMAIN SharedKwargs : BusUpdate(s, SharedKwargs[i])
    \/ \E s \in SessionIds : BusClear(s)
    \/ \E s \in SessionIds : BusSummary(s)
    \/ \E s \in SessionIds : BusExport(s)
    \/ \E s \in SessionIds, backend \in RagBackends : ToolRAG(s, backend)
    \/ \E s \in SessionIds, weather \in WeatherBackends : ToolWeather(s, weather)
    \/ \E s \in SessionIds, severity \in SeverityInputs : ToolAlert(s, severity)

\* the bus when the clients start: empty, or holding a session that
\* create_session made
InitShared ==
    /\ contexts \in {<<>>, create_session(<<>>, "s1", Str(<<"My maize leaves are yellow">>),
                                          Str(<<"Nakuru">>)).ctxs}
    /\ last = NoCall
    /\ ncalls = 0
    /\ sessions = <<>>
    /\ jobs = <<>>
    /\ reply = NoReply
    /\ rate_limit_storage = [ip \in ClientIps |-> <<>>]
    /\ now = 0
    /\ nturns = 0
    /\ accepted = [ip \in ClientIps |-> <<>>]
    /\ turn = NoTurn
    /\ InitMemoryStore
    /\ InitCrew

SpecShared == InitShared /\ [][NextShared]_vars

AlertFields == {"alert_triggered", "alert_severity", "alert_payload_detail"}

\* the two shapes of the alert fields of a record
AlertShape(context) ==
    \/ /\ context.alert_triggered = Bool(FALSE)
       /\ context.alert_severity = None
       /\ context.alert_payload_detail = None
    \/ /\ context.alert_triggered = Bool(TRUE)
       /\ context.alert_severity \in SeverityMembers
       /\ context.alert_payload_detail.t = "dict"
       /\ context.alert_payload_detail.v.severity = context.alert_severity

\* C21: with the alert tool as the only writer of the alert fields, every
\* record has alert_triggered false with severity and payload unset, or
\* alert_triggered true with a severity and a payload of that severity; a
\* call of the alert tool that fails leaves the three fields as they were.
C21_AlertFieldsTogether ==
    /\ \A s \in DOMAIN contexts : AlertShape(contexts[s])
    /\ (IsCall("N8NAlertTool") /\ Existing /\ (last.raised \/ last.ret = <<>>))
       => \A f \in AlertFields : Now[f] = Before[f]

C21_Witness ==
    /\ IsCall("N8NAlertTool") /\ Existing /\ last.raised
    /\ Before.alert_triggered = Bool(TRUE)
    /\ Now.alert_severity = Member("Severity", HIGH)
    /\ Now.alert_payload_detail = Before.alert_payload_detail

\* C22: the alert tool and the regional data tool called with a session id
\* that has no record return their not-found outcome without raising, create
\* no record and leave the bus as it was.
C22_ToolsOnAbsentSession ==
    [][(/\ ncalls' = ncalls + 1
        /\ last'.op \in {"N8NAlertTool", "WeatherPriceTool"}
        /\ last'.session_id \notin DOMAIN contexts)
       => (/\ ~last'.raised
           /\ last'.ret = <<>>
           /\ contexts' = contexts)]_vars

C22_Witness ==
    /\ IsCall("WeatherPriceTool") /\ ~Existing
    /\ ~last.raised /\ last.ret = <<>>
    /\ DOMAIN contexts = {"s1"}
    /\ last.session_id = "s2"

Docs(context) == context.retrieved_context.v

\* C23: when the search backend is not available or its query raises, the
\* retrieval tool called for an existing session returns normally, and the
\* record's retrieved documents are then non-empty and all carry the mock
\* source label.
C23_RetrievalFallsBackToMock ==
    (/\ IsCall("RAGTool") /\ Existing
     /\ last.kwargs[1].value \in {Str(<<"no_index">>), Str(<<"error">>)})
    => (/\ ~last.raised
        /\ last.ret # <<>>
        /\ Docs(Now) # <<>>
        /\ \A i \in DOMAIN Docs(Now) : Docs(Now)[i].v.source = Str(MOCK_SOURCE))

C23_Witness ==
    /\ IsCall("RAGTool") /\ Existing
    /\ last.kwargs[1].value = Str(<<"error">>)
    /\ Docs(Before) # <<>>
    /\ Docs(Before)[1].t = "SourceDocument"
    /\ Docs(Before)[1].v.source = Str(<<"Maize-Manual.pdf">>)
    /\ Docs(Now)[1].v.source = Str(MOCK_SOURCE)

\* C24: every call of the regional data tool on an existing session returns
\* normally and leaves regional_data with a weather key, whichever weather
\* backend answers, fails or has no key.
C24_WeatherKeyWritten ==
    (IsCall("WeatherPriceTool") /\ Existing)
    => (/\ ~last.raised
        /\ last.ret # <<>>
        /\ Now.regional_data.t = "dict"
        /\ "weather" \in DOMAIN Now.regional_data.v)

C24_Witness ==
    /\ IsCall("WeatherPriceTool") /\ Existing
    /\ last.kwargs[1].value = Str(<<"down">>)
    /\ DOMAIN Before.regional_data.v = {}
    /\ Now.regional_data.v.weather.v.source = Str(<<"Mock Data (Climate Estimates)">>)

\* C25: an update of regional_data that carries the top-level keys K
\* replaces the values of K and leaves every other regional_data key with
\* the value it had.
C25_RegionalDataMergedPerKey ==
    (/\ IsCall("update_context") /\ Existing /\ ~last.raised
     /\ last.kwargs[1].key = "regional_data")
    => (/\ \A k \in DOMAIN last.kwargs[1].value.v :
               /\ k \in DOMAIN Now.regional_data.v
               /\ Now.regional_data.v[k] = last.kwargs[1].value.v[k]
        /\ \A k \in DOMAIN Before.regional_data.v \ DOMAIN last.kwargs[1].value.v :
               /\ k \in DOMAIN Now.regional_data.v
               /\ Now.regional_data.v[k] = Before.regional_data.v[k])

\* C26: a call addressed to one session leaves the record of every other
\* session as it was, present or absent.
C26_SessionsDoNotInterfere ==
    [][\A b \in SessionIds :
          (ncalls' = ncalls + 1 /\ b # last'.session_id)
          => (/\ (b \in DOMAIN contexts') = (b \in DOMAIN contexts)
              /\ b \in DOMAIN contexts => contexts'[b] = contexts[b])]_vars

C26_Witness ==
    /\ last.session_id = "s2" /\ Existing
    /\ IsCall("clear_session")
    /\ "s2" \notin DOMAIN contexts
    /\ "s1" \in DOMAIN contexts
    /\ DOMAIN contexts["s1"].regional_data.v # {}

\* C27: calls of update_context on one session are serialized, so that a
\* reader never sees a record with only part of one call's fields applied:
\* after a call the record is the one before it or the one with all the
\* call's fields applied.
C27_NoHalfAppliedUpdate ==
    (IsCall("update_context") /\ Existing)
    => \/ Now = Before
       \/ /\ ~last.raised
          /\ Now = SetFields(Before, last.kwargs, 1).context

\* C28: the session_id and the query of a record never change: the record
\* stored under key k has session_id k, and the query it was created with.
C28_IdentityImmutable ==
    [][\A k \in DOMAIN contexts' :
          /\ contexts'[k].session_id = Str(<<k>>)
          /\ k \in DOMAIN contexts => contexts'[k].query = contexts[k].query]_vars

\* C29: in every state each entry of a record's retrieved documents is a
\* SourceDocument with a score in [0, 1] and an asset type of the enum.
C29_DocumentsValidated ==
    \A s \in DOMAIN contexts :
        /\ contexts[s].retrieved_context.t = "list"
        /\ \A i \in DOMAIN Docs(contexts[s]) :
               /\ Docs(contexts[s])[i].t = "SourceDocument"
               /\ Docs(contexts[s])[i].v.score \in 0..100
               /\ Docs(contexts[s])[i].v.asset_type \in AssetTypeMembers

\* C30: the summary reports the diagnosis as COMPLETE exactly when
\* final_diagnosis is non-empty and is not the pending sentinel, and as
\* PENDING otherwise.
C30_SummaryCompleteIffDiagnosed ==
    (IsCall("get_full_context_summary") /\ Existing /\ ~last.raised)
    => last.ret = <<IF Before.final_diagnosis.v # <<>> /\ Before.final_diagnosis.v # PENDING
                    THEN "COMPLETE" ELSE "PENDING">>

\* C31: the task export of a record gives every field that holds an enum
\* member as the string of that member's value, holds the session_id and a
\* mapping for regional_data, and agrees with the record on every other
\* field; for an absent session it is the empty mapping.
C31_ExportRendersEnumsAsStrings ==
    IsCall("get_context_for_task")
    => IF ~Existing THEN last.ret = PyDict(<<>>)
       ELSE LET export == last.ret.v
            IN  /\ last.ret.t = "dict"
                /\ DOMAIN export = DOMAIN Before
                /\ "session_id" \in DOMAIN export
                /\ export.regional_data.t = "dict"
                /\ export.regional_data = Before.regional_data
                /\ Len(export.retrieved_context.v) = Len(Before.retrieved_context.v)
                /\ \A f \in DOMAIN Before \ {"retrieved_context"} :
                      IF Before[f].t \in EnumClasses
                      THEN export[f] = Str(Before[f].v)
                      ELSE export[f] = Before[f]

C31_Witness ==
    /\ IsCall("get_context_for_task") /\ Existing
    /\ Before.asset_type = Member("AssetType", CROP)
    /\ last.ret.v.asset_type = Str(CROP)

C31_WitnessAbsent ==
    IsCall("get_context_for_task") /\ ~Existing /\ DOMAIN contexts # {}

\* C32: after clear_session(id) the id has no record, whether it had one or
\* not; the call raises nothing, changes nothing when the id was absent, and
\* leaves every other session's record as it was; a create_session(id, ...)
\* that follows builds the record with the default fields.
C32_ClearThenCreate ==
    [][/\ (IsCall("clear_session")' /\ ncalls' = ncalls + 1)
          => LET id == last'.session_id
             IN  /\ get_context(contexts', id) = <<>>
                 /\ ~last'.raised
                 /\ id \notin DOMAIN contexts => contexts' = contexts
                 /\ \A b \in DOMAIN contexts \ {id} :
                       b \in DOMAIN contexts' /\ contexts'[b] = contexts[b]
       /\ (/\ IsCall("clear_session") /\ IsCall("create_session")'
           /\ last'.session_id = last.session_id /\ ~last'.raised)
          => contexts'[last.session_id]
                = MCPContext(last.session_id, last'.query, last'.region)]_vars

C32_Witness ==
    /\ IsCall("clear_session") /\ Existing
    /\ last.session_id = "s1"
    /\ Before # MCPContext("s1", Before.query, Before.region)
    /\ "s1" \notin DOMAIN contexts
    /\ "s2" \in DOMAIN contexts

C32_WitnessAbsent ==
    /\ IsCall("clear_session") /\ ~Existing
    /\ last.session_id = "s2"
    /\ "s1" \in DOMAIN contexts

\* C36: an update_context call that raises leaves the record exactly as it
\* was before the call.
C36_FailedUpdateChangesNothing ==
    (IsCall("update_context") /\ Existing /\ last.raised) => Now = Before

\* C38: whatever extract_information returned, the job that has passed
\* create_session handed it a query that is not empty and a region that is
\* a string, and was not failed by the record's validation.
C38_JobSeedsUsableQueryAndRegion ==
    \A j \in DOMAIN jobs :
        (jobs[j].pc # "queued"
           /\ jobs[j].exc # "503: Crew initialization timeout. Please retry.")
        => /\ truthy(QueryOf(jobs[j].extracted_info))
           /\ RegionOf(jobs[j].extracted_info).t = "str"
           /\ jobs[j].exc # "1 validation error for MCPContext"

\* C37: a chat turn whose conversational generation call raises replies with
\* the fixed apology and requires_action false, launches no job, and leaves
\* the session's status as it was (chatting for a session it creates).
C37_GenerationFailureIsAnApology ==
    [][\A s \in ChatIds :
          (ChatTurn(s) /\ turn'.llm_raised)
          => /\ reply'.message = LLM_APOLOGY
             /\ reply'.requires_action = FALSE
             /\ reply'.action_type = None
             /\ jobs' = jobs
             /\ s \in DOMAIN sessions'
             /\ sessions'[s].status = IF s \in DOMAIN sessions
                                      THEN sessions[s].status ELSE "chatting"]_vars

C37_Witness ==
    /\ turn.llm_raised
    /\ reply.kind = "chat"
    /\ reply.message = LLM_APOLOGY
    /\ reply.session_id \in DOMAIN sessions
    /\ sessions[reply.session_id].status = "failed"
    /\ jobs = <<>>

-----------------------------------------------------------------------------
(* The session store on its own, with the cache failing on some calls and   *)
(* the time to live running out, checked under SpecStore                     *)

\* how many times the time to live the clock may run
MaxLifetimes == 2

\* the clock moves to just before, or exactly to, the end of a time to live
Lifetimes == {SESSION_TTL - 1, SESSION_TTL}

Elapse(d) ==
    /\ now + d <= MaxLifetimes * SESSION_TTL
    /\ now' = now + d
    /\ UNCHANGED <<contexts, last, ncalls, store, jobs, reply,
                   rate_limit_storage, nturns, accepted, turn, cache, loader>>

\* the dicts the handlers save: a new session, one being diagnosed, one with
\* its diagnosis
StoreDatas ==
    {NewSession,
     [NewSession EXCEPT !.status = "processing", !.messages = <<"user", "assistant">>],
     [NewSession EXCEPT !.status = "completed", !.messages = <<"user", "assistant">>,
                        !.diagnosis = Str(<<"Apply a copper fungicide.">>)]}

\* a handler calls save_session(session_id, data) with a dict it built
StoreSave(session_id, data, ok) ==
    /\ ok \in CacheOutcomes
    /\ nturns < MaxTurns
    /\ nturns' = nturns + 1
    /\ save_session(sessions, session_id, data, ok)
    /\ CacheCalls(<<ok>>)
    /\ reply' = [kind |-> "saved", session_id |-> session_id, data |-> data]
    /\ UNCHANGED <<contexts, last, ncalls, jobs, rate_limit_storage, now, accepted,
                   turn, USE_REDIS, loader>>

\* a handler calls delete_session(session_id)
StoreDelete(session_id, ok) ==
    /\ ok \in CacheOutcomes
    /\ nturns < MaxTurns
    /\ nturns' = nturns + 1
    /\ delete_session(session_id, ok)
    /\ CacheCalls(<<ok>>)
    /\ reply' = [kind |-> "deleted", session_id |-> session_id, data |-> None]
    /\ UNCHANGED <<contexts, last, ncalls, jobs, rate_limit_storage, now, accepted,
                   turn, USE_REDIS, loader>>

\* the process found the cache when it was imported, or it did not
InitStore ==
    /\ contexts = <<>>
    /\ last = NoCall
    /\ ncalls = 0
    /\ sessions = <<>>
    /\ jobs = <<>>
    /\ reply = NoReply
    /\ rate_limit_storage = [ip \in ClientIps |-> <<>>]
    /\ now = 0
    /\ nturns = 0
    /\ accepted = [ip \in ClientIps |-> <<>>]
    /\ turn = NoTurn
    /\ USE_REDIS \in BOOLEAN
    /\ cache_errors = 0
    /\ redis = <<>>
    /\ saved_at = <<>>
    /\ InitCrew

NextStore ==
    \/ \E s \in ChatIds, data \in StoreDatas, ok \in BOOLEAN : StoreSave(s, data, ok)
    \/ \E s \in ChatIds, ok \in BOOLEAN : StoreDelete(s, ok)
    \/ \E s \in ChatIds : check_status(s)
    \/ \E d \in Lifetimes : Elapse(d)

SpecStore == InitStore /\ [][NextStore]_vars

\* C33: once the time to live has elapsed since a session's last save, the
\* entry is gone in either backend: get_session, which is what a status
\* poll reads, finds nothing.
C33_EntryGoneAfterTtl ==
    \A s \in DOMAIN saved_at :
        now >= saved_at[s] + SESSION_TTL
        => \A ok \in CacheOutcomes : get_session(s, ok) = <<>>

\* C39: whatever cache calls succeed or raise, the store is one key/value
\* map: right after save_session(id, d) a get_session(id) returns d, and
\* right after delete_session(id) a get_session(id) returns nothing.
C39_StoreIsOneMap ==
    [][\A s \in ChatIds :
          (nturns' = nturns + 1 /\ reply'.session_id = s)
          => \A ok \in CacheOutcomes :
                /\ reply'.kind = "saved" => get_session(s, ok)' = <<reply'.data>>
                /\ reply'.kind = "deleted" => get_session(s, ok)' = <<>>]_vars

-----------------------------------------------------------------------------
(* The gateway of a process that found the cache when it was imported, the  *)
(* cache answering or raising on every single call, checked under SpecCache *)

\* the gateway starts with an empty cache and an empty memory dict
InitCache ==
    /\ contexts = <<>>
    /\ last = NoCall
    /\ ncalls = 0
    /\ sessions = <<>>
    /\ jobs = <<>>
    /\ reply = NoReply
    /\ rate_limit_storage = [ip \in ClientIps |-> <<>>]
    /\ now = 0
    /\ nturns = 0
    /\ accepted = [ip \in ClientIps |-> <<>>]
    /\ turn = NoTurn
    /\ USE_REDIS = TRUE
    /\ cache_errors = 0
    /\ redis = <<>>
    /\ saved_at = <<>>
    /\ InitCrew

SpecCache == InitCache /\ [][Next]_vars

\* what a reader finds stored for session s when the cache answers
Stored(s) == get_session(s, TRUE)

\* every job launched for session s has returned or raised
JobsOver(s) ==
    \A j \in DOMAIN jobs : jobs[j].session_id = s => jobs[j].pc \in {"done", "failed"}

\* C34: a session does not stay in status processing: once every job
\* launched for it has returned or raised, what is stored for it is not
\* processing, whatever chat turns and status polls came in between.
C34_ProcessingEnds ==
    \A s \in ChatIds :
        (JobsOver(s) /\ Stored(s) # <<>>) => Stored(s)[1].status # "processing"

-----------------------------------------------------------------------------
(* get_crew called from several threads, checked under FairSpecCrew *)

\* how many times one thread calls get_crew
MaxCrewCalls == 2

\* AgroSenseCrew(): the n-th object constructed
AgroSenseCrew(n) == [t |-> "AgroSenseCrew", v |-> <<n>>]

RECURSIVE SumBuilt(_)
SumBuilt(cs) ==
    IF cs = {} THEN 0
    ELSE LET c == CHOOSE x \in cs : TRUE IN callers[c].built + SumBuilt(cs \ {c})

\* how many crews have been constructed
Constructed == SumBuilt(Callers)

\* a second look that finds nothing
double_check_skipped(instance) == FALSE

\* if crew_instance is not None, under the lock
double_check(instance) == instance # None

CrewUnchanged ==
    UNCHANGED <<contexts, last, ncalls, store, jobs, reply, limiter, cache>>

\* thread c calls get_crew()
CrewCall(c) ==
    /\ callers[c].pc = "idle"
    /\ callers[c].calls < MaxCrewCalls
    /\ callers' = [callers EXCEPT ![c].pc = "fast", ![c].calls = @ + 1,
                                  ![c].ret = None, ![c].raised = FALSE]
    /\ UNCHANGED <<crew_instance, CREW_INITIALIZING, crew_lock>>
    /\ CrewUnchanged

\* the fast path: if crew_instance is not None: return crew_instance
CrewFastPath(c) ==
    /\ callers[c].pc = "fast"
    /\ callers' = IF crew_instance # None
                  THEN [callers EXCEPT ![c].pc = "idle", ![c].ret = crew_instance]
                  ELSE [callers EXCEPT ![c].pc = "lock"]
    /\ UNCHANGED <<crew_instance, CREW_INITIALIZING, crew_lock>>
    /\ CrewUnchanged

\* with crew_lock: the thread blocks until the lock is free
CrewAcquire(c) ==
    /\ callers[c].pc = "lock"
    /\ crew_lock = NoHolder
    /\ crew_lock' = c
    /\ callers' = [callers EXCEPT ![c].pc = "locked"]
    /\ UNCHANGED <<crew_instance, CREW_INITIALIZING>>
    /\ CrewUnchanged

\* under the lock: the second look at crew_instance; the wait for another
\* thread's initialization, which ends with the instance or with the 503
\* of the timeout; or CREW_INITIALIZING = True
CrewLocked(c) ==
    /\ callers[c].pc = "locked"
    /\ IF double_check(crew_instance)
       THEN /\ callers' = [callers EXCEPT ![c].pc = "idle", ![c].ret = crew_instance]
            /\ crew_lock' = NoHolder
            /\ UNCHANGED CREW_INITIALIZING
       ELSE IF CREW_INITIALIZING
       THEN /\ callers' = [callers EXCEPT ![c].pc = "idle", ![c].ret = crew_instance,
                                          ![c].raised = (crew_instance = None)]
            /\ crew_lock' = NoHolder
            /\ UNCHANGED CREW_INITIALIZING
       ELSE /\ CREW_INITIALIZING' = TRUE
            /\ callers' = [callers EXCEPT ![c].pc = "build"]
            /\ UNCHANGED crew_lock
    /\ UNCHANGED crew_instance
    /\ CrewUnchanged

\* crew_instance = AgroSenseCrew(), or the except branch of a constructor
\* that raised: crew_instance = None
CrewBuild(c, ok) ==
    /\ callers[c].pc = "build"
    /\ IF ok
       THEN /\ crew_instance' = AgroSenseCrew(Constructed + 1)
            /\ callers' = [callers EXCEPT ![c].pc = "built", ![c].built = @ + 1]
       ELSE /\ crew_instance' = None
            /\ callers' = [callers EXCEPT ![c].pc = "failed"]
    /\ UNCHANGED <<CREW_INITIALIZING, crew_lock>>
    /\ CrewUnchanged

\* finally: CREW_INITIALIZING = False; the lock is released; the call
\* returns the instance or raises the 503
CrewFinally(c) ==
    /\ callers[c].pc \in {"built", "failed"}
    /\ CREW_INITIALIZING' = FALSE
    /\ crew_lock' = NoHolder
    /\ callers' = [callers EXCEPT ![c].pc = "idle",
                                  ![c].ret = IF callers[c].pc = "built"
                                             THEN crew_instance ELSE None,
                                  ![c].raised = (callers[c].pc = "failed")]
    /\ UNCHANGED crew_instance
    /\ CrewUnchanged

\* a step of thread c inside get_crew
CrewStep(c) ==
    \/ CrewFastPath(c)
    \/ CrewAcquire(c)
    \/ CrewLocked(c)
    \/ \E ok \in BOOLEAN : CrewBuild(c, ok)
    \/ CrewFinally(c)

NextCrew ==
    \/ \E c \in Callers : CrewCall(c)
    \/ \E c \in Callers : CrewFastPath(c)
    \/ \E c \in Callers : CrewAcquire(c)
    \/ \E c \in Callers : CrewLocked(c)
    \/ \E c \in Callers, ok \in BOOLEAN : CrewBuild(c, ok)
    \/ \E c \in Callers : CrewFinally(c)

SpecCrew == Init /\ [][NextCrew]_vars

\* every thread inside get_crew is scheduled again, and the constructor
\* returns or raises
FairSpecCrew == SpecCrew /\ \A c \in Callers : WF_vars(CrewStep(c))

\* the crew is constructed at most once, every call that returns hands out
\* the one instance, the flag is set only under the lock, and no thread
\* finds it set
CrewInvariant ==
    /\ Constructed <= 1
    /\ Constructed = 0 => crew_instance = None
    /\ \A c \in Callers :
          /\ callers[c].ret # None => callers[c].ret = crew_instance
          /\ (callers[c].pc = "idle" /\ callers[c].calls > 0)
             => (callers[c].raised <=> callers[c].ret = None)
          /\ callers[c].pc = "locked" => ~CREW_INITIALIZING
    /\ crew_lock = NoHolder => ~CREW_INITIALIZING

\* C40: with any threads calling get_crew at once, the crew is constructed
\* at most once and every call that returns hands out that instance; a
\* constructor that raises leaves crew_instance unset, CREW_INITIALIZING
\* false and the lock free, so that a later call constructs again; and every
\* thread that entered get_crew leaves it.
C40_CrewBuiltOnceAndNoOneWaits ==
    /\ [][/\ CrewInvariant'
          /\ \A c \in Callers :
                (callers[c].pc = "failed" /\ callers'[c].pc = "idle")
                => /\ crew_instance' = None
                   /\ ~CREW_INITIALIZING'
                   /\ crew_lock' = NoHolder
                   /\ callers'[c].raised]_vars
    /\ \A c \in Callers : (callers[c].pc # "idle") ~> (callers[c].pc = "idle")

\* a constructor raised, a later call constructed the crew, and two threads
\* that had both found no instance on the fast path hold the same instance
C40_Witness ==
    /\ crew_instance # None
    /\ callers["t1"].raised /\ callers["t1"].pc = "idle"
    /\ callers["t2"].built = 1 /\ callers["t2"].ret = crew_instance
    /\ callers["t3"].ret = crew_instance
    /\ callers["t3"].calls = 1 /\ callers["t2"].calls = 1

====
